---------------------------- MODULE Spec2Model ----------------------------
(***************************************************************************)
(* micro-notifier: a Pusher-compatible event multicaster.                  *)
(*                                                                         *)
(* The model follows src/notifier/app.go (membership), socket.go (the      *)
(* per-connection session and the fan-out walk) and redis.go (the shared   *)
(* key-value backend and the pub/sub subscriber loop).                     *)
(*                                                                         *)
(* A lane is a goroutine: one per accepted connection (the HTTP handler    *)
(* establishConnection, continued by socketMessageHandleLoop), one REST    *)
(* handler per process, and one redisSubscriberLoop per process.  A lane   *)
(* takes one step per operation on the thread-safe user set, per command   *)
(* group sent to the key-value store and per socket write of a walk.       *)
(***************************************************************************)
EXTENDS Integers, Sequences, FiniteSets, TLC

\* ------------------------------------------------------------------ bounds
MaxConns   == 2   \* connections accepted in one behaviour
MaxFrames  == 2   \* inbound frames read, over all connections
MaxPublish == 1   \* events published through the REST endpoint
MaxBreaks  == 1   \* connections that fail or that the peer closes
MaxAccepts == 3   \* connections accepted in a behaviour of SpecAccept
MaxResub   == 3   \* inbound frames read in a behaviour of SpecWalk
MaxScript  == 3   \* inbound frames a client sends in a behaviour of SpecOrder
MaxLoopPub == 2   \* messages published in a behaviour of SpecLoop
MaxLoopErr == 2   \* errors of the subscriber loop in a behaviour of SpecLoop

Conns     == 1..MaxAccepts
Procs     == {1, 2}                \* process 1 = A, process 2 = B
SockIDs   == {"1.1", "2.2"}         \* fmt.Sprintf("%d.%d", rand.Uint64(), rand.Uint64())
ChanNames == {"my-channel", "private-x", "presence-x"}
UIDs      == 0..MaxAccepts

\* strings.HasPrefix(channel, "private-")
IsPrivate(cn) == cn = "private-x"

\* strings.HasPrefix(ch.Name, "presence-")
IsPresence(cn) == cn = "presence-x"

\* the channel names the frames of an arbitrary client carry
FrameChans == {"my-channel", "private-x"}

\* Config.Applications of the sample configuration
ConfigApps == { [Name |-> "testapp",  Key |-> "1234567890",      Secret |-> "abcdefghij"],
                [Name |-> "testapp2", Key |-> "anystringwilldo", Secret |-> "xyzzy"] }

\* Config.GetApp
ConfigGetApp(name) == { a \in ConfigApps : a.Name = name }

\* the application whose state is explored
AppName == "testapp"

\* ------------------------------------------------------------ membership
EmptyMap == << >>

\* Channel{Name, Users}; exists = FALSE stands for "no such key / no such entry"
NoChannel    == [exists |-> FALSE, Users |-> EmptyMap]
NewChannel   == [exists |-> TRUE,  Users |-> EmptyMap]

MapPut(m, k, v) == [x \in (DOMAIN m) \cup {k} |-> IF x = k THEN v ELSE m[x]]
MapDel(m, k)    == [x \in (DOMAIN m) \ {k} |-> m[x]]

\* a SubscribeUser that counts only for a user the map holds already
SubscribeUserIfPresent(m, uid) ==
    IF uid \in DOMAIN m THEN MapPut(m, uid, m[uid] + 1) ELSE m

\* Channel.SubscribeUser: n, ok := Users[uid]; Users[uid] = n + 1
SubscribeUser(m, uid) ==
    MapPut(m, uid, (IF uid \in DOMAIN m THEN m[uid] ELSE 0) + 1)

\* an UnsubscribeUser that stores the decremented count, 0 included
UnsubscribeUserKeepingZero(m, uid) ==
    IF uid \in DOMAIN m THEN MapPut(m, uid, m[uid] - 1) ELSE m

\* Channel.UnsubscribeUser: delete at 1, decrement otherwise, no-op when absent
UnsubscribeUser(m, uid) ==
    IF uid \in DOMAIN m
    THEN IF m[uid] = 1 THEN MapDel(m, uid) ELSE MapPut(m, uid, m[uid] - 1)
    ELSE m

\* Channel.UserCount
UserCount(m) == Cardinality(DOMAIN m)

RECURSIVE SumOver(_, _)
SumOver(m, S) ==
    IF S = {} THEN 0
    ELSE LET k == CHOOSE x \in S : TRUE IN m[k] + SumOver(m, S \ {k})

\* Channel.SubscriptionCount
SubscriptionCount(m) == SumOver(m, DOMAIN m)

\* the largest element of a set of naturals, 0 for the empty set (maxid := 0)
MaxID(S) == IF S = {} THEN 0 ELSE CHOOSE x \in S : \A y \in S : y <= x

\* the first index of ids[0..maxid] that is not set, -1 when all are set
FirstFree(S) ==
    LET free == { i \in 0..MaxID(S) : i \notin S }
    IN IF free = {} THEN -1 ELSE CHOOSE i \in free : \A j \in free : i <= j

\* Application.allocateUserID: ids = the IDs of a.Users, card = a.Users.Cardinality()
allocateUserID(ids, card) ==
    IF FirstFree(ids) < 0 THEN card ELSE FirstFree(ids)

SeqRange(s) == { s[i] : i \in 1..Len(s) }

\* an allocation that never takes an ID below the greatest one
dbAllocateAbove(uids) == MaxID(SeqRange(uids)) + 1

\* DB.allocateUserID, the branch for an existing <app>/users value:
\* the first free index, else len(ids) = maxid + 1
dbAllocate(uids) ==
    IF FirstFree(SeqRange(uids)) < 0 THEN MaxID(SeqRange(uids)) + 1
    ELSE FirstFree(SeqRange(uids))

\* DB.DeleteUserID: drop the first occurrence of uid
RemoveFirst(s, uid) ==
    IF uid \notin { s[i] : i \in 1..Len(s) } THEN s
    ELSE LET idx == CHOOSE i \in 1..Len(s) : s[i] = uid /\ \A j \in 1..(i-1) : s[j] # uid
         IN  SubSeq(s, 1, idx - 1) \o SubSeq(s, idx + 1, Len(s))

\* UIDArray under <app>/users; exists = FALSE is the nil reply of GET
NoUsers == [exists |-> FALSE, UIDs |-> << >>]

\* ------------------------------------------------------------------ lanes
ConnLane(c) == <<"conn", c>>     \* establishConnection, then socketMessageHandleLoop
RestLane(p) == <<"rest", p>>     \* a REST handler of process p
LoopLane(p) == <<"loop", p>>     \* redisSubscriberLoop of process p
Lanes == { ConnLane(c) : c \in Conns } \cup { RestLane(p) : p \in Procs }
            \cup { LoopLane(p) : p \in Procs }

\* the signature key + ":" + hex(HMAC-SHA256(secret, socketID + ":" + channel)); HMAC is
\* taken collision-free, so the string is determined by, and determines, the four parts
Sign(key, secret, sid, cn) == [Key |-> key, Secret |-> secret, sock |-> sid, ch |-> cn]

\* a subscribe payload without "auth"
NoAuth == Sign("", "", "", "")

\* the auth strings a client may present: signed with any key and secret, for any socket
\* id and any channel
Tokens == { Sign(a.Key, b.Secret, sid, cn) :
              a \in ConfigApps, b \in ConfigApps, sid \in SockIDs, cn \in FrameChans }

\* an inbound frame {event, data}: valid = data is an object with a "channel" member
InFrame(e, cn, a, v) == [event |-> e, channel |-> cn, auth |-> a, valid |-> v]
NoFrame == InFrame("", "", NoAuth, FALSE)

\* a JSON value that is no string, as the "auth" or as the "channel" of a payload
NonStringAuth == Sign("", "", "", "123")
NonStringChannel == "123"

\* the type assertions channel.(string) and auth.(string) of socketMessageHandleLoop
\* panic on frame f
Panics(f) ==
    /\ f.valid
    /\ \/ f.channel = NonStringChannel
       \/ f.event = "pusher:subscribe" /\ IsPrivate(f.channel) /\ f.auth = NonStringAuth

InFrames ==
    { InFrame("pusher:ping", "", NoAuth, FALSE), InFrame("client-event", "", NoAuth, FALSE),
      InFrame("pusher:subscribe", "", NoAuth, FALSE),
      InFrame("pusher:unsubscribe", "", NoAuth, FALSE),
      InFrame("undecodable", "", NoAuth, FALSE) }
    \cup { InFrame("pusher:subscribe", cn, NoAuth, TRUE) : cn \in FrameChans }
    \cup { InFrame("pusher:subscribe", cn, t, TRUE) :
               t \in Tokens, cn \in { x \in FrameChans : IsPrivate(x) } }
    \cup { InFrame("pusher:unsubscribe", cn, NoAuth, TRUE) : cn \in FrameChans }
    \cup { InFrame("pusher:subscribe", cn, NonStringAuth, TRUE) :
               cn \in { x \in FrameChans : IsPrivate(x) } }
    \cup { InFrame("pusher:subscribe", NonStringChannel, NoAuth, TRUE),
           InFrame("pusher:unsubscribe", NonStringChannel, NoAuth, TRUE) }

\* Event / EventRequest; pub is the serial number of the publish request
NoEvent == [Name |-> "", Data |-> "", Application |-> "", Channel |-> "", pub |-> 0]

\* what a REST handler has written to its http.ResponseWriter: the status code and the
\* JSON body, an object given as a function of its member names
NoResponse == [code |-> 0, body |-> << >>]

\* trigger: ev.Channels of the request a lane handles, and how many of them it has
\* passed to Broadcast (-1: the lane handles no publish request)
NoTrigger == [list |-> << >>, at |-> -1]

\* the locals of a lane
NoLocals == [uid |-> -1, ch |-> "", key |-> "", rdCh |-> NoChannel, rdU |-> NoUsers,
             dirty |-> FALSE, chs |-> {}, todo |-> {}, ev |-> NoEvent,
             td |-> 0, ret |-> "", in |-> NoFrame, resp |-> NoResponse, err |-> << >>,
             seen |-> << >>, trig |-> NoTrigger]

\* an outbound frame {event, channel, data}; pub names the publish it carries
Frame(e, cn, d, k) == [event |-> e, channel |-> cn, data |-> d, pub |-> k]

VARIABLES
    mode,        \* "standalone" (s.db = nil) or "distributed"
    lim,         \* what the environment does in this behaviour: connections, frames, publishes
    nbreak,      \* the connections that have failed so far
    due,         \* history: the publish requests taken, each with its channel and process
    Users,       \* Users[p]: Application.Users of process p, a set of User records (by connection)
    ID,          \* ID[c]: User.ID of the user of connection c
    SocketID,    \* SocketID[c]: User.SocketID
    owner,       \* owner[c]: the process that accepted connection c (0 before)
    Channels,    \* Application.Channels of the standalone process
    kvChannels,  \* <app>/channels/<channel> in the key-value store
    kvUsers,     \* <app>/users in the key-value store
    msgs,        \* msgs[p]: messages of topic "events" not yet received by p's loop
    sock,        \* sock[c]: "none", "open", "broken" (peer or network gone), "closed"
    out,         \* out[c]: the frames written to connection c, in order
    pc,          \* pc[l]: where lane l stands
    lv,          \* lv[l]: the locals of lane l
    nframes,     \* nframes[c]: inbound frames read from c so far
    npub,        \* publish requests made so far
    hist,        \* hist[c]: the membership operations that returned success for c's user
    lost         \* lost[c]: the frames whose write to c failed

vars == <<mode, lim, nbreak, due, Users, ID, SocketID, owner, Channels, kvChannels, kvUsers, msgs,
          sock, out, pc, lv, nframes, npub, hist, lost>>

\* a membership operation that returned success, as hist records it; pub is the number
\* of publish requests taken before it
Done(op, cn, f) == [op |-> op, ch |-> cn, auth |-> f.auth, pub |-> Len(due)]

\* the processes that run: one in standalone mode, lim.procs peers in distributed mode,
\* less those a panic has ended
Running ==
    { p \in (IF mode = "standalone" THEN {1} ELSE 1..lim.procs) : pc[RestLane(p)] # "dead" }

\* NewSupervisor: InitApps, and KickRedisSubscription when s.db # nil
Start(modes, procs, conns, frames, pubs, breaks, chans, sids, any) ==
    /\ mode \in modes
    /\ nbreak = 0
    /\ due = << >>
    /\ lim = [procs |-> procs, conns |-> conns, frames |-> frames, pubs |-> pubs,
              breaks |-> breaks, chans |-> chans, sids |-> sids, any |-> any,
              script |-> << >>, cb |-> FALSE]
    /\ Users = [p \in Procs |-> {}]
    /\ ID = [c \in Conns |-> -1]
    /\ SocketID = [c \in Conns |-> ""]
    /\ owner = [c \in Conns |-> 0]
    /\ Channels = [cn \in ChanNames |-> NoChannel]
    /\ kvChannels = [cn \in ChanNames |-> NoChannel]
    /\ kvUsers = NoUsers
    /\ msgs = [p \in Procs |-> << >>]
    /\ sock = [c \in Conns |-> "none"]
    /\ out = [c \in Conns |-> << >>]
    /\ pc = [l \in Lanes |-> IF l[1] = "conn" THEN "idle"
                             ELSE IF l[1] = "loop" THEN "recv" ELSE "rest"]
    /\ lv = [l \in Lanes |-> NoLocals]
    /\ nframes = [c \in Conns |-> 0]
    /\ npub = 0
    /\ hist = [c \in Conns |-> << >>]
    /\ lost = [c \in Conns |-> << >>]

\* the IDs of the users registered in process p
IDsOf(p) == { ID[c] : c \in Users[p] }

\* Application.GetUserByID: the users of p that carry this ID (none: nil)
GetUserByID(p, uid) == { c \in Users[p] : ID[c] = uid }

\* AppErr(code, message), and the nil *AppError
AppErr(code, msg) == [Code |-> code, Message |-> msg]
NilAppError == AppErr(0, "")

\* a check that takes every ID for the ID of a managed user
ManagesAnyID(fn, p, uid) == NilAppError

\* Subscribe, Unsubscribe and RemoveUser (fn) after GetApp: u = a.GetUserByID(uid), and
\* the error they return at once when u is nil
ManagedUser(fn, p, uid) ==
    IF GetUserByID(p, uid) = {}
    THEN AppErr(500, fn \o " called on an unmanaged user")
    ELSE NilAppError

\* ------------------------------------------------------ key-value store
\* DB.watchAndGet: lane l remembers the key it read
Watching(l, k, loc) == [loc EXCEPT !.key = k, !.dirty = FALSE]

\* a committed SET of key k by lane l: every other lane that read k since holds a stale value
AfterCommit(l, k, loc) ==
    [x \in Lanes |-> IF x = l THEN [loc EXCEPT !.key = "", !.dirty = FALSE]
                     ELSE IF lv[x].key = k THEN [lv[x] EXCEPT !.dirty = TRUE]
                     ELSE lv[x]]

\* DB.updateAndCommit: the WATCH was issued on the connection watchAndGet took from the
\* pool and gave back; updateAndCommit takes a connection from the pool again.  EXEC
\* returns nil only if the key changed (dirty) and the WATCH is in force on that
\* connection, which the pool decides.
ExecOutcomes(l) == IF lv[l].dirty THEN {"committed", "nil"} ELSE {"committed"}

UsersKey == "users"

\* ------------------------------------------------------- socket writes
\* Connection.WriteMessage succeeds on an open socket and fails otherwise
CanWrite(c) == sock[c] = "open"

\* socketSend(u, ...) by a lane that goes on at `next`: the frame is written, or the
\* write fails and socketFinish(u) runs before the lane goes on
OutAfterSend(c, f)        == IF CanWrite(c) THEN [out EXCEPT ![c] = Append(@, f)] ELSE out
LostAfterSend(c, f)       == IF CanWrite(c) THEN lost ELSE [lost EXCEPT ![c] = Append(@, f)]
PcAfterSend(c, next)      == IF CanWrite(c) THEN next ELSE "td_start"
LvAfterSend(loc, c, next) == IF CanWrite(c) THEN loc ELSE [loc EXCEPT !.td = c, !.ret = next]

\* socketFinish(u) entered by a lane that goes on at `next` afterwards
EnterFinish(loc, c, next) == [loc EXCEPT !.td = c, !.ret = next]

SetLane(l, newpc, loc) ==
    /\ pc' = [pc EXCEPT ![l] = newpc]
    /\ lv' = [lv EXCEPT ![l] = loc]

\* ------------------------------------------------------------ accepting
\* establishConnection: GetAppFromKey, Upgrade; AddUser follows
Connect(c, p) ==
    /\ pc[ConnLane(c)] = "idle"
    /\ \A d \in Conns : d < c => pc[ConnLane(d)] # "idle"
    /\ c <= lim.conns
    /\ p \in Running
    /\ sock' = [sock EXCEPT ![c] = "open"]
    /\ owner' = [owner EXCEPT ![c] = p]
    /\ SetLane(ConnLane(c), "adduser", lv[ConnLane(c)])
    /\ UNCHANGED <<mode, lim, nbreak, due, Users, ID, SocketID, Channels, kvChannels,
                   kvUsers, msgs, out, nframes, npub, hist, lost>>

\* AddUser, standalone: uid = a.allocateUserID()
AllocStandalone(c) ==
    LET l == ConnLane(c) IN
    /\ mode = "standalone"
    /\ pc[l] = "adduser"
    /\ SetLane(l, "register",
               [lv[l] EXCEPT !.uid = allocateUserID(IDsOf(owner[c]),
                                                    Cardinality(Users[owner[c]]))])
    /\ UNCHANGED <<mode, lim, nbreak, due, Users, ID, SocketID, owner, Channels, kvChannels,
                   kvUsers, msgs, sock, out, nframes, npub, hist, lost>>

\* AddUser, distributed: DB.allocateUserID, watchAndGet(<app>/users)
AllocGet(c) ==
    LET l == ConnLane(c) IN
    /\ mode = "distributed"
    /\ pc[l] = "adduser"
    /\ SetLane(l, "alloc_commit", Watching(l, UsersKey, [lv[l] EXCEPT !.rdU = kvUsers]))
    /\ UNCHANGED <<mode, lim, nbreak, due, Users, ID, SocketID, owner, Channels, kvChannels,
                   kvUsers, msgs, sock, out, nframes, npub, hist, lost>>

\* DB.allocateUserID: the uid chosen from the value read
AllocatedUID(r) == IF r.exists THEN dbAllocate(r.UIDs) ELSE 0

\* DB.allocateUserID, updateAndCommit(<app>/users); a nil reply of EXEC retries
AllocCommit(c) ==
    LET l == ConnLane(c)
        uid == AllocatedUID(lv[l].rdU)
    IN
    /\ pc[l] = "alloc_commit"
    /\ \E r \in ExecOutcomes(l) :
         IF r = "committed"
         THEN /\ kvUsers' = [exists |-> TRUE, UIDs |-> Append(lv[l].rdU.UIDs, uid)]
              /\ lv' = AfterCommit(l, UsersKey, [lv[l] EXCEPT !.uid = uid, !.rdU = NoUsers])
              /\ pc' = [pc EXCEPT ![l] = "register"]
         ELSE /\ SetLane(l, "adduser", [lv[l] EXCEPT !.rdU = NoUsers, !.key = "", !.dirty = FALSE])
              /\ UNCHANGED kvUsers
    /\ UNCHANGED <<mode, lim, nbreak, due, Users, ID, SocketID, owner, Channels, kvChannels,
                   msgs, sock, out, nframes, npub, hist, lost>>

\* AddUser: a.registerUser(uid, conn)
Register(c) ==
    LET l == ConnLane(c) IN
    /\ pc[l] = "register"
    /\ Users' = [Users EXCEPT ![owner[c]] = @ \cup {c}]
    /\ ID' = [ID EXCEPT ![c] = lv[l].uid]
    /\ SetLane(l, "handshake", [lv[l] EXCEPT !.uid = -1])
    /\ UNCHANGED <<mode, lim, nbreak, due, SocketID, owner, Channels, kvChannels, kvUsers,
                   msgs, sock, out, nframes, npub, hist, lost>>

\* establishConnection: u.SocketID = sockid, the handshake frame is written; on a
\* write error socketFinish and return, else SetCloseHandler and go socketMessageHandleLoop
Handshake(c, sid) ==
    LET l == ConnLane(c) IN
    /\ pc[l] = "handshake"
    /\ SocketID' = [SocketID EXCEPT ![c] = sid]
    /\ out' = OutAfterSend(c, Frame("pusher:connection_established", "", sid, 0))
    /\ lost' = LostAfterSend(c, Frame("pusher:connection_established", "", sid, 0))
    /\ IF CanWrite(c)
       THEN SetLane(l, "read", lv[l])
       ELSE SetLane(l, "td_start", EnterFinish(lv[l], c, "done"))
    /\ UNCHANGED <<mode, lim, nbreak, due, Users, ID, owner, Channels, kvChannels, kvUsers,
                   msgs, sock, nframes, npub, hist>>

\* the peer or the network fails: later reads and writes on the socket return errors
Break(c) ==
    /\ sock[c] = "open"
    /\ nbreak < lim.breaks
    /\ nbreak' = nbreak + 1
    /\ sock' = [sock EXCEPT ![c] = "broken"]
    /\ UNCHANGED <<mode, lim, due, Users, ID, SocketID, owner, Channels, kvChannels,
                   kvUsers, msgs, out, pc, lv, nframes, npub, hist, lost>>

\* ------------------------------------------------------------- teardown
\* RemoveUser, standalone: one UnsubscribeUser(uid) on every channel of the application
UnsubscribeAll(chs, uid) ==
    [cn \in ChanNames |-> IF chs[cn].exists
                          THEN [chs[cn] EXCEPT !.Users = UnsubscribeUser(@, uid)]
                          ELSE chs[cn]]

\* the lane is back from socketFinish
Returned(loc) == [loc EXCEPT !.td = 0, !.ret = "", !.chs = {}, !.ch = "",
                             !.rdCh = NoChannel, !.rdU = NoUsers]

\* socketFinish(u), standalone: RemoveUser(app, u.ID), then u.Connection.Close().
\* RemoveUser returns an error when GetUserByID(u.ID) is nil; otherwise it unsubscribes
\* the ID from every channel and unregisterUser removes the user GetUserByID finds.
FinishStandalone(l) ==
    LET c   == lv[l].td
        p   == owner[c]
        uid == ID[c]
    IN
    /\ mode = "standalone"
    /\ pc[l] = "td_start"
    /\ IF ManagedUser("RemoveUser", p, uid) # NilAppError
       THEN UNCHANGED <<Users, Channels>>
       ELSE /\ Channels' = UnsubscribeAll(Channels, uid)
            /\ \E v \in GetUserByID(p, uid) : Users' = [Users EXCEPT ![p] = @ \ {v}]
    /\ sock' = [sock EXCEPT ![c] = "closed"]
    /\ SetLane(l, lv[l].ret, Returned(lv[l]))
    /\ UNCHANGED <<mode, lim, nbreak, due, ID, SocketID, owner, kvChannels, kvUsers, msgs,
                   out, nframes, npub, hist, lost>>

\* DB.GetChannels, as RemoveUser uses it: the channels whose user map holds uid
ChannelsHolding(uid) ==
    { cn \in ChanNames : kvChannels[cn].exists /\ uid \in DOMAIN kvChannels[cn].Users }

\* socketFinish(u), distributed: RemoveUser up to GetChannels.  An unmanaged user is an
\* error: RemoveUser returns and the connection is closed.
FinishStart(l) ==
    LET c   == lv[l].td
        uid == ID[c]
    IN
    /\ mode = "distributed"
    /\ pc[l] = "td_start"
    /\ IF ManagedUser("RemoveUser", owner[c], uid) # NilAppError
       THEN /\ sock' = [sock EXCEPT ![c] = "closed"]
            /\ SetLane(l, lv[l].ret, Returned(lv[l]))
       ELSE /\ SetLane(l, IF ChannelsHolding(uid) = {} THEN "td_uid_get" ELSE "td_del_get",
                       [lv[l] EXCEPT !.chs = ChannelsHolding(uid)])
            /\ UNCHANGED sock
    /\ UNCHANGED <<mode, lim, nbreak, due, Users, ID, SocketID, owner, Channels, kvChannels,
                   kvUsers, msgs, out, nframes, npub, hist, lost>>

\* RemoveUser: DeleteUserIDFromChannel(app, c.Name, uid), watchAndGet; the loop takes
\* the channels in map order, a retry stays on its channel
FinishDelGet(l) ==
    /\ pc[l] = "td_del_get"
    /\ \E cn \in (IF lv[l].ch # "" THEN {lv[l].ch} ELSE lv[l].chs) :
         IF kvChannels[cn].exists
         THEN SetLane(l, "td_del_commit",
                      Watching(l, cn, [lv[l] EXCEPT !.ch = cn, !.rdCh = kvChannels[cn]]))
         ELSE SetLane(l, IF lv[l].chs \ {cn} = {} THEN "td_uid_get" ELSE "td_del_get",
                      [lv[l] EXCEPT !.ch = "", !.chs = @ \ {cn}])
    /\ UNCHANGED <<mode, lim, nbreak, due, Users, ID, SocketID, owner, Channels, kvChannels,
                   kvUsers, msgs, sock, out, nframes, npub, hist, lost>>

\* RemoveUser: DeleteUserIDFromChannel, ch.UnsubscribeUser(uid) and updateAndCommit
FinishDelCommit(l) ==
    LET cn  == lv[l].ch
        uid == ID[lv[l].td]
    IN
    /\ pc[l] = "td_del_commit"
    /\ \E r \in ExecOutcomes(l) :
         IF r = "committed"
         THEN /\ kvChannels' = [kvChannels EXCEPT ![cn] =
                    [exists |-> TRUE, Users |-> UnsubscribeUser(lv[l].rdCh.Users, uid)]]
              /\ hist' = [hist EXCEPT ![lv[l].td] = Append(@, Done("unsub", cn, NoFrame))]
              /\ lv' = AfterCommit(l, cn, [lv[l] EXCEPT !.ch = "", !.rdCh = NoChannel,
                                                        !.chs = @ \ {cn}])
              /\ pc' = [pc EXCEPT ![l] = IF lv[l].chs \ {cn} = {} THEN "td_uid_get"
                                         ELSE "td_del_get"]
         ELSE /\ SetLane(l, "td_del_get",
                         [lv[l] EXCEPT !.rdCh = NoChannel, !.key = "", !.dirty = FALSE])
              /\ UNCHANGED <<kvChannels, hist>>
    /\ UNCHANGED <<mode, lim, nbreak, due, Users, ID, SocketID, owner, Channels, kvUsers,
                   msgs, sock, out, nframes, npub, lost>>

\* a.unregisterUser(uid), then u.Connection.Close() back in socketFinish
UnregisterAndClose(l) ==
    LET c   == lv[l].td
        p   == owner[c]
        uid == ID[c]
    IN
    /\ IF GetUserByID(p, uid) = {}
       THEN UNCHANGED Users
       ELSE \E v \in GetUserByID(p, uid) : Users' = [Users EXCEPT ![p] = @ \ {v}]
    /\ sock' = [sock EXCEPT ![c] = "closed"]
    /\ pc' = [pc EXCEPT ![l] = lv[l].ret]

\* a DeleteUserID that takes every uid for one of the list
HoldsAnyUID(uid) == TRUE

\* DB.DeleteUserID: the reply of GET is not nil and the loop over uids.UIDs finds uid
HoldsUID(uid) == kvUsers.exists /\ uid \in SeqRange(kvUsers.UIDs)

\* RemoveUser: DeleteUserID(app, uid), watchAndGet(<app>/users).  A missing key or a
\* missing uid is no error: RemoveUser goes on to unregisterUser.
FinishUidGet(l) ==
    LET uid == ID[lv[l].td] IN
    /\ pc[l] = "td_uid_get"
    /\ IF HoldsUID(uid)
       THEN /\ SetLane(l, "td_uid_commit",
                       Watching(l, UsersKey, [lv[l] EXCEPT !.rdU = kvUsers]))
            /\ UNCHANGED <<Users, sock>>
       ELSE /\ UnregisterAndClose(l)
            /\ lv' = [lv EXCEPT ![l] = Returned(lv[l])]
    /\ UNCHANGED <<mode, lim, nbreak, due, ID, SocketID, owner, Channels, kvChannels,
                   kvUsers, msgs, out, nframes, npub, hist, lost>>

\* RemoveUser: DeleteUserID, updateAndCommit of the list without the first uid
FinishUidCommit(l) ==
    LET uid == ID[lv[l].td] IN
    /\ pc[l] = "td_uid_commit"
    /\ \E r \in ExecOutcomes(l) :
         IF r = "committed"
         THEN /\ kvUsers' = [exists |-> TRUE, UIDs |-> RemoveFirst(lv[l].rdU.UIDs, uid)]
              /\ UnregisterAndClose(l)
              /\ lv' = AfterCommit(l, UsersKey, Returned(lv[l]))
         ELSE /\ SetLane(l, "td_uid_get",
                         [lv[l] EXCEPT !.rdU = NoUsers, !.key = "", !.dirty = FALSE])
              /\ UNCHANGED <<kvUsers, Users, sock>>
    /\ UNCHANGED <<mode, lim, nbreak, due, ID, SocketID, owner, Channels, kvChannels, msgs,
                   out, nframes, npub, hist, lost>>

\* ------------------------------------------- the store, called directly
\* s.db.DeleteUserID(app, uid), called by lane l as the low-level tests call it
CallDeleteUserID(l, uid) ==
    /\ mode = "distributed"
    /\ l[1] = "rest" /\ l[2] \in Running
    /\ pc[l] = "rest"
    /\ SetLane(l, "del_get", [lv[l] EXCEPT !.uid = uid])
    /\ UNCHANGED <<mode, lim, nbreak, due, Users, ID, SocketID, owner, Channels, kvChannels,
                   kvUsers, msgs, sock, out, nframes, npub, hist, lost>>

\* DB.DeleteUserID: watchAndGet(<app>/users).  A nil reply, or a list without uid,
\* returns nil at once; rdU keeps what was read for the caller to compare.
DeleteUserIDGet(l) ==
    /\ pc[l] = "del_get"
    /\ IF HoldsUID(lv[l].uid)
       THEN SetLane(l, "del_commit", Watching(l, UsersKey, [lv[l] EXCEPT !.rdU = kvUsers]))
       ELSE SetLane(l, "del_returned", [lv[l] EXCEPT !.rdU = kvUsers, !.ret = "nil"])
    /\ UNCHANGED <<mode, lim, nbreak, due, Users, ID, SocketID, owner, Channels, kvChannels,
                   kvUsers, msgs, sock, out, nframes, npub, hist, lost>>

\* DB.DeleteUserID: updateAndCommit of the list without the first uid; a nil reply of
\* EXEC retries
DeleteUserIDCommit(l) ==
    /\ pc[l] = "del_commit"
    /\ \E r \in ExecOutcomes(l) :
         IF r = "committed"
         THEN /\ kvUsers' = [exists |-> TRUE, UIDs |-> RemoveFirst(lv[l].rdU.UIDs, lv[l].uid)]
              /\ pc' = [pc EXCEPT ![l] = "del_returned"]
              /\ lv' = AfterCommit(l, UsersKey, [lv[l] EXCEPT !.ret = "nil"])
         ELSE /\ SetLane(l, "del_get", [lv[l] EXCEPT !.rdU = NoUsers, !.key = "", !.dirty = FALSE])
              /\ UNCHANGED kvUsers
    /\ UNCHANGED <<mode, lim, nbreak, due, Users, ID, SocketID, owner, Channels, kvChannels,
                   msgs, sock, out, nframes, npub, hist, lost>>

\* Application.getChannel: the channel, or error 404
getChannel(cn) ==
    IF Channels[cn].exists THEN [ch |-> Channels[cn], err |-> "nil"]
    ELSE [ch |-> NoChannel, err |-> "404"]

\* DB.GetChannel: GET <app>/channels/<channel>; a nil reply is error 400
dbGetChannel(cn) ==
    IF kvChannels[cn].exists THEN [ch |-> kvChannels[cn], err |-> "nil"]
    ELSE [ch |-> NoChannel, err |-> "400"]

\* s.GetChannel(app, cn), called by lane l as the low-level tests call it:
\* DB.GetChannel when s.db # nil, else Application.getChannel
CallGetChannel(l, cn) ==
    LET r == IF mode = "distributed" THEN dbGetChannel(cn) ELSE getChannel(cn) IN
    /\ l[1] = "rest" /\ l[2] \in Running
    /\ pc[l] = "rest"
    /\ SetLane(l, "get_returned", [lv[l] EXCEPT !.ch = cn, !.rdCh = r.ch, !.ret = r.err])
    /\ UNCHANGED <<mode, lim, nbreak, due, Users, ID, SocketID, owner, Channels, kvChannels,
                   kvUsers, msgs, sock, out, nframes, npub, hist, lost>>

\* the caller has looked at what GetChannel returned
GetChannelReturned(l) ==
    /\ pc[l] = "get_returned"
    /\ SetLane(l, "rest", [lv[l] EXCEPT !.ch = "", !.rdCh = NoChannel, !.ret = ""])
    /\ UNCHANGED <<mode, lim, nbreak, due, Users, ID, SocketID, owner, Channels, kvChannels,
                   kvUsers, msgs, sock, out, nframes, npub, hist, lost>>

\* the caller has looked at what DeleteUserID returned
CallReturned(l) ==
    /\ pc[l] = "del_returned"
    /\ SetLane(l, "rest", [lv[l] EXCEPT !.uid = -1, !.rdU = NoUsers, !.ret = ""])
    /\ UNCHANGED <<mode, lim, nbreak, due, Users, ID, SocketID, owner, Channels, kvChannels,
                   kvUsers, msgs, sock, out, nframes, npub, hist, lost>>

\* --------------------------------------------------- the reader lane
\* socketMessageHandleLoop: ReadMessage returns frame f
ReadFrame(c, f) ==
    LET l == ConnLane(c) IN
    /\ pc[l] = "read"
    /\ sock[c] = "open"
    /\ SumOver(nframes, Conns) < lim.frames
    /\ nframes' = [nframes EXCEPT ![c] = @ + 1]
    /\ SetLane(l, "handle", [lv[l] EXCEPT !.in = f])
    /\ UNCHANGED <<mode, lim, nbreak, due, Users, ID, SocketID, owner, Channels, kvChannels,
                   kvUsers, msgs, sock, out, npub, hist, lost>>

\* socketMessageHandleLoop: ReadMessage returns an error; socketFinish and return
ReadError(c) ==
    LET l == ConnLane(c) IN
    /\ pc[l] = "read"
    /\ sock[c] \in {"broken", "closed"}
    /\ SetLane(l, "td_start", EnterFinish(lv[l], c, "done"))
    /\ UNCHANGED <<mode, lim, nbreak, due, Users, ID, SocketID, owner, Channels, kvChannels,
                   kvUsers, msgs, sock, out, nframes, npub, hist, lost>>

\* the peer sends a close frame: ReadMessage runs the close handler (socketFinish), and
\* returns an error afterwards
PeerClose(c) ==
    LET l == ConnLane(c) IN
    /\ pc[l] = "read"
    /\ sock[c] = "open"
    /\ nbreak < lim.breaks
    /\ nbreak' = nbreak + 1
    /\ sock' = [sock EXCEPT ![c] = "broken"]
    /\ SetLane(l, "td_start", EnterFinish(lv[l], c, "read"))
    /\ UNCHANGED <<mode, lim, due, Users, ID, SocketID, owner, Channels, kvChannels,
                   kvUsers, msgs, out, nframes, npub, hist, lost>>

\* socketSend(u, e, cn, d) by the reader lane of c, which reads on afterwards
Reply(c, f) ==
    LET l == ConnLane(c) IN
    /\ out' = OutAfterSend(c, f)
    /\ lost' = LostAfterSend(c, f)
    /\ SetLane(l, PcAfterSend(c, "read"), LvAfterSend([lv[l] EXCEPT !.in = NoFrame], c, "read"))

\* an error path that ends the session: socketFinish and return
FinishOnInvalid(c) ==
    /\ SetLane(ConnLane(c), "td_start",
               EnterFinish([lv[ConnLane(c)] EXCEPT !.in = NoFrame], c, "done"))
    /\ UNCHANGED <<out, lost>>

\* socketSendInvalid(u, ...) by the reader lane of c: pusher:error "unrecognized message"
socketSendInvalid(c) == Reply(c, Frame("pusher:error", "", "unrecognized message", 0))

\* the switch on ev.Name of socketMessageHandleLoop is at the frame read, of event e
Handling(c, e) == pc[ConnLane(c)] = "handle" /\ lv[ConnLane(c)].in.event = e

\* json.Unmarshal fails: socketFinish and return
HandleUndecodable(c) ==
    LET l == ConnLane(c) IN
    /\ Handling(c, "undecodable")
    /\ SetLane(l, "td_start", EnterFinish([lv[l] EXCEPT !.in = NoFrame], c, "done"))
    /\ UNCHANGED <<mode, lim, nbreak, due, nframes, Users, ID, SocketID, owner, Channels,
                   kvChannels, kvUsers, msgs, sock, out, npub, hist, lost>>

\* a switch without the case "pusher:ping": the frame falls to the default
HandlePingByDefault(c) ==
    /\ Handling(c, "pusher:ping")
    /\ Reply(c, Frame("pusher:error", "", "not implemented", 0))
    /\ UNCHANGED <<mode, lim, nbreak, due, nframes, Users, ID, SocketID, owner, Channels,
                   kvChannels, kvUsers, msgs, sock, npub, hist>>

\* case "pusher:ping"
HandlePing(c) ==
    /\ Handling(c, "pusher:ping")
    /\ Reply(c, Frame("pusher:pong", "", "ok", 0))
    /\ UNCHANGED <<mode, lim, nbreak, due, nframes, Users, ID, SocketID, owner, Channels,
                   kvChannels, kvUsers, msgs, sock, npub, hist>>

\* default
HandleOther(c) ==
    /\ Handling(c, "client-event")
    /\ Reply(c, Frame("pusher:error", "", "not implemented", 0))
    /\ UNCHANGED <<mode, lim, nbreak, due, nframes, Users, ID, SocketID, owner, Channels,
                   kvChannels, kvUsers, msgs, sock, npub, hist>>

\* case "pusher:subscribe" / "pusher:unsubscribe" with a payload that is no object or
\* has no "channel": socketSendInvalid
HandleInvalid(c) ==
    LET f == lv[ConnLane(c)].in IN
    /\ \/ Handling(c, "pusher:subscribe")
       \/ Handling(c, "pusher:unsubscribe")
    /\ ~f.valid
    /\ socketSendInvalid(c)
    /\ UNCHANGED <<mode, lim, nbreak, due, nframes, Users, ID, SocketID, owner, Channels,
                   kvChannels, kvUsers, msgs, sock, npub, hist>>

\* checkSignature(u, channel, socketID, auth) for the user of connection c
checkSignature(c, cn, sid, auth) ==
    \E a \in ConfigGetApp(AppName) : auth = Sign(a.Key, a.Secret, sid, cn)

\* the test of socket.go:144-146: a private channel without "auth" or with a wrong one
Unauthorized(c, f) ==
    /\ IsPrivate(f.channel)
    /\ \/ f.auth = NoAuth
       \/ ~checkSignature(c, f.channel, SocketID[c], f.auth)

\* an unrecovered panic or a fatal error of the runtime in process p: the process ends,
\* its sockets are closed and its memory is gone; the store keeps what it holds
Exits(p) ==
    LET dead == { ConnLane(d) : d \in { x \in Conns : owner[x] = p /\ pc[ConnLane(x)] # "idle" } }
                  \cup {RestLane(p), LoopLane(p)}
    IN
    /\ pc' = [l \in Lanes |-> IF l \in dead THEN "dead" ELSE pc[l]]
    /\ lv' = [l \in Lanes |-> IF l \in dead THEN NoLocals ELSE lv[l]]
    /\ sock' = [d \in Conns |-> IF ConnLane(d) \in dead THEN "closed" ELSE sock[d]]
    /\ Users' = [Users EXCEPT ![p] = {}]
    /\ Channels' = IF mode = "standalone" THEN [cn \in ChanNames |-> NoChannel] ELSE Channels
    /\ msgs' = [msgs EXCEPT ![p] = << >>]
    /\ UNCHANGED <<mode, lim, nbreak, due, ID, SocketID, owner, kvChannels, kvUsers, out,
                   nframes, npub, hist, lost>>

\* case "pusher:subscribe" / "pusher:unsubscribe" with a "channel" that is no string,
\* or a subscribe to a private channel with an "auth" that is no string: the type
\* assertion panics in the goroutine of the reader and nothing recovers
HandlePanic(c) ==
    /\ \/ Handling(c, "pusher:subscribe")
       \/ Handling(c, "pusher:unsubscribe")
    /\ Panics(lv[ConnLane(c)].in)
    /\ Exits(owner[c])

\* case "pusher:subscribe", refused: socketSendUnauthorized
HandleUnauthorized(c) ==
    LET f == lv[ConnLane(c)].in IN
    /\ Handling(c, "pusher:subscribe")
    /\ f.valid /\ ~Panics(f)
    /\ Unauthorized(c, f)
    /\ Reply(c, Frame("pusher:error", "", "unauthorized", 0))
    /\ UNCHANGED <<mode, lim, nbreak, due, nframes, Users, ID, SocketID, owner, Channels,
                   kvChannels, kvUsers, msgs, sock, npub, hist>>

\* the lane of the standalone process that runs realBroadcast
Walker == RestLane(1)

\* for uid := range ch.Users, in standalone mode over the live map of the application:
\* a key created in the map while the range runs may be produced by it or skipped
RangeAfterCreate(cn, uid) ==
    IF /\ pc[Walker] = "walk" /\ lv[Walker].ev.Channel = cn
       /\ ~lv[Walker].rdCh.exists
       /\ uid \notin DOMAIN Channels[cn].Users
    THEN { [lv[Walker] EXCEPT !.todo = @ \cup {uid}], [lv[Walker] EXCEPT !.todo = @ \ {uid}] }
    ELSE { lv[Walker] }

\* case "pusher:subscribe", standalone: Subscribe = GetUserByID, getOrCreateChannel,
\* SubscribeUser; then the reply.  An unmanaged user is an error: socketSendInvalid.
\* When the lookup of getOrCreateChannel misses, the channel is created in a later step
\* (CreateAndSubscribe): nothing holds a lock between the lookup and the assignment.
HandleSubscribeStandalone(c) ==
    LET l   == ConnLane(c)
        f   == lv[l].in
        cn  == f.channel
        uid == ID[c]
        ok  == Frame("pusher_internal:subscription_succeeded", cn, "ok", 0)
    IN
    /\ mode = "standalone"
    /\ Handling(c, "pusher:subscribe")
    /\ f.valid /\ ~Panics(f)
    /\ ~Unauthorized(c, f)
    /\ IF ManagedUser("Subscribe", owner[c], uid) # NilAppError
       THEN /\ socketSendInvalid(c)
            /\ UNCHANGED <<Channels, hist>>
       ELSE IF ~Channels[cn].exists
       THEN /\ SetLane(l, "sub_create", [lv[l] EXCEPT !.ch = cn])
            /\ UNCHANGED <<Channels, hist, out, lost>>
       ELSE /\ Channels' = [Channels EXCEPT ![cn] =
                  [exists |-> TRUE, Users |-> SubscribeUser(@.Users, uid)]]
            /\ hist' = [hist EXCEPT ![c] = Append(@, Done("sub", cn, f))]
            /\ out' = OutAfterSend(c, ok)
            /\ lost' = LostAfterSend(c, ok)
            /\ pc' = [pc EXCEPT ![l] = PcAfterSend(c, "read")]
            /\ \E w \in RangeAfterCreate(cn, uid) :
                 lv' = [lv EXCEPT ![Walker] = w,
                                  ![l] = LvAfterSend([lv[l] EXCEPT !.in = NoFrame], c, "read")]
    /\ UNCHANGED <<mode, lim, nbreak, due, nframes, Users, ID, SocketID, owner, kvChannels,
                   kvUsers, msgs, sock, npub>>

\* the locals of the walker after a.Channels[cn] was assigned a new Channel: a range that
\* runs over the Channel that was there goes on over that one, which nothing writes any
\* more; so does the handler getChannel with the Channel it holds
WalkerAfterAssign(cn) ==
    IF /\ \/ pc[Walker] = "walk" /\ lv[Walker].ev.Channel = cn
          \/ pc[Walker] \in {"st_sum", "st_count"} /\ lv[Walker].ch = cn
       /\ ~lv[Walker].rdCh.exists
    THEN [lv[Walker] EXCEPT !.rdCh = Channels[cn]]
    ELSE lv[Walker]

\* Subscribe, standalone, after the lookup of getOrCreateChannel missed: a new Channel is
\* assigned to a.Channels[cn], whatever is there by now, and SubscribeUser works on the
\* new one; then the reply
CreateAndSubscribe(c) ==
    LET l   == ConnLane(c)
        cn  == lv[l].ch
        uid == ID[c]
        ok  == Frame("pusher_internal:subscription_succeeded", cn, "ok", 0)
    IN
    /\ mode = "standalone"
    /\ pc[l] = "sub_create"
    /\ Channels' = [Channels EXCEPT ![cn] =
          [exists |-> TRUE, Users |-> SubscribeUser(EmptyMap, uid)]]
    /\ hist' = [hist EXCEPT ![c] = Append(@, Done("sub", cn, lv[l].in))]
    /\ out' = OutAfterSend(c, ok)
    /\ lost' = LostAfterSend(c, ok)
    /\ pc' = [pc EXCEPT ![l] = PcAfterSend(c, "read")]
    /\ lv' = [lv EXCEPT ![Walker] = WalkerAfterAssign(cn),
                        ![l] = LvAfterSend([lv[l] EXCEPT !.in = NoFrame, !.ch = ""], c, "read")]
    /\ UNCHANGED <<mode, lim, nbreak, due, nframes, Users, ID, SocketID, owner, kvChannels,
                   kvUsers, msgs, sock, npub>>

\* case "pusher:unsubscribe", standalone: Unsubscribe = GetUserByID, then UnsubscribeUser
\* on an existing channel; the result is dropped and nothing is replied
HandleUnsubscribeStandalone(c) ==
    LET l   == ConnLane(c)
        f   == lv[l].in
        cn  == f.channel
        uid == ID[c]
    IN
    /\ mode = "standalone"
    /\ Handling(c, "pusher:unsubscribe")
    /\ f.valid /\ ~Panics(f)
    /\ IF ManagedUser("Unsubscribe", owner[c], uid) # NilAppError
       THEN UNCHANGED <<Channels, hist>>
       ELSE /\ Channels' = [Channels EXCEPT ![cn] =
                  IF @.exists THEN [@ EXCEPT !.Users = UnsubscribeUser(@, uid)] ELSE @]
            /\ hist' = [hist EXCEPT ![c] = Append(@, Done("unsub", cn, f))]
    /\ SetLane(l, "read", [lv[l] EXCEPT !.in = NoFrame])
    /\ UNCHANGED <<mode, lim, nbreak, due, nframes, Users, ID, SocketID, owner, kvChannels,
                   kvUsers, msgs, sock, out, npub, lost>>

\* case "pusher:subscribe", distributed: Subscribe up to GetUserByID.  An unmanaged user
\* is an error (socketSendInvalid); otherwise AddUserIDToChannel follows.
HandleSubscribeDistributed(c) ==
    LET l == ConnLane(c)
        f == lv[l].in
    IN
    /\ mode = "distributed"
    /\ Handling(c, "pusher:subscribe")
    /\ f.valid /\ ~Panics(f)
    /\ ~Unauthorized(c, f)
    /\ IF ManagedUser("Subscribe", owner[c], ID[c]) # NilAppError
       THEN socketSendInvalid(c)
       ELSE /\ SetLane(l, "sub_get", [lv[l] EXCEPT !.ch = f.channel])
            /\ UNCHANGED <<out, lost>>
    /\ UNCHANGED <<mode, lim, nbreak, due, nframes, Users, ID, SocketID, owner, Channels,
                   kvChannels, kvUsers, msgs, sock, npub, hist>>

\* DB.AddUserIDToChannel: watchAndGet; a nil reply stands for a new, empty channel
SubGet(c) ==
    LET l  == ConnLane(c)
        cn == lv[l].ch
    IN
    /\ pc[l] = "sub_get"
    /\ SetLane(l, "sub_commit",
               Watching(l, cn, [lv[l] EXCEPT !.rdCh = IF kvChannels[cn].exists
                                                     THEN kvChannels[cn] ELSE NewChannel]))
    /\ UNCHANGED <<mode, lim, nbreak, due, Users, ID, SocketID, owner, Channels, kvChannels,
                   kvUsers, msgs, sock, out, nframes, npub, hist, lost>>

\* DB.AddUserIDToChannel: ch.SubscribeUser(uid), updateAndCommit; on success Subscribe
\* returns nil and subscription_succeeded is sent; a nil reply of EXEC retries
SubCommit(c) ==
    LET l  == ConnLane(c)
        cn == lv[l].ch
        f  == Frame("pusher_internal:subscription_succeeded", cn, "ok", 0)
    IN
    /\ pc[l] = "sub_commit"
    /\ \E r \in ExecOutcomes(l) :
         IF r = "committed"
         THEN /\ kvChannels' = [kvChannels EXCEPT ![cn] =
                    [exists |-> TRUE, Users |-> SubscribeUser(lv[l].rdCh.Users, ID[c])]]
              /\ hist' = [hist EXCEPT ![c] = Append(@, Done("sub", cn, lv[l].in))]
              /\ out' = OutAfterSend(c, f)
              /\ lost' = LostAfterSend(c, f)
              /\ pc' = [pc EXCEPT ![l] = PcAfterSend(c, "read")]
              /\ lv' = AfterCommit(l, cn,
                         LvAfterSend([lv[l] EXCEPT !.in = NoFrame, !.ch = "",
                                                   !.rdCh = NoChannel], c, "read"))
         ELSE /\ SetLane(l, "sub_get",
                         [lv[l] EXCEPT !.rdCh = NoChannel, !.key = "", !.dirty = FALSE])
              /\ UNCHANGED <<kvChannels, hist, out, lost>>
    /\ UNCHANGED <<mode, lim, nbreak, due, Users, ID, SocketID, owner, Channels, kvUsers,
                   msgs, sock, nframes, npub>>

\* case "pusher:unsubscribe", distributed: Unsubscribe up to GetUserByID; its error is
\* dropped
HandleUnsubscribeDistributed(c) ==
    LET l == ConnLane(c)
        f == lv[l].in
    IN
    /\ mode = "distributed"
    /\ Handling(c, "pusher:unsubscribe")
    /\ f.valid /\ ~Panics(f)
    /\ IF ManagedUser("Unsubscribe", owner[c], ID[c]) # NilAppError
       THEN SetLane(l, "read", [lv[l] EXCEPT !.in = NoFrame])
       ELSE SetLane(l, "unsub_get", [lv[l] EXCEPT !.ch = f.channel])
    /\ UNCHANGED <<mode, lim, nbreak, due, nframes, Users, ID, SocketID, owner, Channels,
                   kvChannels, kvUsers, msgs, sock, out, npub, hist, lost>>

\* DB.DeleteUserIDFromChannel: watchAndGet; a nil reply is error 400, which Unsubscribe's
\* caller drops
UnsubGet(c) ==
    LET l  == ConnLane(c)
        cn == lv[l].ch
    IN
    /\ pc[l] = "unsub_get"
    /\ IF kvChannels[cn].exists
       THEN SetLane(l, "unsub_commit", Watching(l, cn, [lv[l] EXCEPT !.rdCh = kvChannels[cn]]))
       ELSE SetLane(l, "read", [lv[l] EXCEPT !.in = NoFrame, !.ch = ""])
    /\ UNCHANGED <<mode, lim, nbreak, due, Users, ID, SocketID, owner, Channels, kvChannels,
                   kvUsers, msgs, sock, out, nframes, npub, hist, lost>>

\* DB.DeleteUserIDFromChannel: ch.UnsubscribeUser(uid), updateAndCommit
UnsubCommit(c) ==
    LET l  == ConnLane(c)
        cn == lv[l].ch
    IN
    /\ pc[l] = "unsub_commit"
    /\ \E r \in ExecOutcomes(l) :
         IF r = "committed"
         THEN /\ kvChannels' = [kvChannels EXCEPT ![cn] =
                    [exists |-> TRUE, Users |-> UnsubscribeUser(lv[l].rdCh.Users, ID[c])]]
              /\ hist' = [hist EXCEPT ![c] = Append(@, Done("unsub", cn, lv[l].in))]
              /\ pc' = [pc EXCEPT ![l] = "read"]
              /\ lv' = AfterCommit(l, cn, [lv[l] EXCEPT !.in = NoFrame, !.ch = "",
                                                        !.rdCh = NoChannel])
         ELSE /\ SetLane(l, "unsub_get",
                         [lv[l] EXCEPT !.rdCh = NoChannel, !.key = "", !.dirty = FALSE])
              /\ UNCHANGED <<kvChannels, hist>>
    /\ UNCHANGED <<mode, lim, nbreak, due, Users, ID, SocketID, owner, Channels, kvUsers,
                   msgs, sock, out, nframes, npub, lost>>

\* ------------------------------------------------------------- fan-out
\* the subscriptions connection c holds on channel cn by its own operations: a
\* subscribe that returned success adds one, an unsubscribe takes one if there is one
RECURSIVE Outstanding(_, _)
Outstanding(h, cn) ==
    IF h = << >> THEN 0
    ELSE LET n == Outstanding(SubSeq(h, 1, Len(h) - 1), cn)
             e == h[Len(h)]
         IN  IF e.ch # cn THEN n
             ELSE IF e.op = "sub" THEN n + 1
             ELSE IF n > 0 THEN n - 1 ELSE 0

\* the users a process has registered
Registered == UNION { Users[p] : p \in Procs }

\* the publish request process p takes for channel cn
\* redisSubscriberLoop of process p holds a PubSubConn subscribed to "events"
Subscribed(p) == pc[LoopLane(p)] \notin {"wait", "stopped", "dead"}

\* the processes a publish reaches: the one of standalone mode, or those whose loop is
\* subscribed when PUBLISH runs (the store keeps no message for a later subscriber)
Hearing ==
    IF mode = "standalone" THEN {1} ELSE { q \in Running : Subscribed(q) }

\* the publish request process p takes for channel cn (p = 0: a foreign message), with
\* the processes it reaches and the number of errors each subscriber loop had before it
AtBroadcast(p, e, cn) ==
    [ch |-> cn, at |-> p, to |-> Hearing, Name |-> e.Name, Data |-> e.Data,
     errs |-> [q \in Procs |-> Len(lv[LoopLane(q)].err)]]

\* Event{Name, Data}: the event of the publish requests of most specifications, and
\* events whose strings have characters that JSON writes as escapes
DefaultEvent == [Name |-> "my-event", Data |-> "event-data"]
Events == { DefaultEvent, [Name |-> "my-event", Data |-> "a<b"],
            [Name |-> "say \"hi\"", Data |-> "event-data"] }

AtPublish(p, cn) == AtBroadcast(p, DefaultEvent, cn)

\* EventRequest{Name, Data, Application, Channel} as Broadcast builds it
Request(e, cn, k) ==
    [Name |-> e.Name, Data |-> e.Data, Application |-> AppName, Channel |-> cn, pub |-> k]

TheEvent(cn, k) == Request(DefaultEvent, cn, k)

\* json.Marshal of a string: the quote and the backslash are written with a backslash,
\* and <, > and & as \u003c, \u003e and \u0026
Escape(str) ==
    IF str = "a<b" THEN "a\\u003cb"
    ELSE IF str = "say \"hi\"" THEN "say \\\"hi\\\""
    ELSE str

\* a decoder that takes the text between the quotes as it stands
UnescapeNothing(txt) == txt

\* json.Unmarshal of a string: the escapes are read back
Unescape(txt) ==
    IF txt = "a\\u003cb" THEN "a<b"
    ELSE IF txt = "say \\\"hi\\\"" THEN "say \"hi\""
    ELSE txt

\* PublishRedisEvent: json.Marshal(ev); redisSubscriberLoop: json.Unmarshal(v.Data, &er)
EncodeRequest(er) ==
    [Name |-> Escape(er.Name), Data |-> Escape(er.Data),
     Application |-> Escape(er.Application), Channel |-> Escape(er.Channel), pub |-> er.pub]
DecodeRequest(m) ==
    [Name |-> Unescape(m.Name), Data |-> Unescape(m.Data),
     Application |-> Unescape(m.Application), Channel |-> Unescape(m.Channel),
     pub |-> m.pub]

\* a message on the topic that is no JSON, and the EventRequest of an application this
\* process does not have, as another publisher on the store may send them
Undecodable == [NoEvent EXCEPT !.Data = "not json"]
ForeignApp(k) ==
    EncodeRequest([TheEvent("my-channel", k) EXCEPT !.Application = "nosuchapp"])

\* where a lane that walks goes on after realBroadcast returns
Home(l) == IF l[1] = "loop" THEN "recv" ELSE "rest"

\* trigger -> Broadcast -> realBroadcast, standalone: the lookup of GetOrCreateChannel;
\* on a hit the walk over ch.Users follows, on a miss the channel is created in a later
\* step (CreateForPublish)
BroadcastStandalone(cn, loc) ==
    LET l == RestLane(1)
        m == Channels[cn].Users
    IN
    /\ mode = "standalone"
    /\ pc[l] = "rest"
    /\ npub < lim.pubs
    /\ npub' = npub + 1
    /\ due' = Append(due, AtPublish(1, cn))
    /\ IF ~Channels[cn].exists
       THEN SetLane(l, "pub_create", [loc EXCEPT !.ch = cn])
       ELSE SetLane(l, IF DOMAIN m = {} THEN "rest" ELSE "walk",
                    [loc EXCEPT !.ev = IF DOMAIN m = {} THEN NoEvent
                                       ELSE TheEvent(cn, npub + 1),
                                !.todo = DOMAIN m])
    /\ UNCHANGED <<mode, lim, nbreak, Users, ID, SocketID, owner, Channels, kvChannels,
                   kvUsers, msgs, sock, out, nframes, hist, lost>>

\* the publish request of the REST endpoint for one channel
PublishStandalone(cn) == BroadcastStandalone(cn, lv[RestLane(1)])

\* GetOrCreateChannel, standalone, after the lookup missed: a new, empty Channel is
\* assigned to a.Channels[cn], whatever is there by now; the range over it has no key
CreateForPublish ==
    LET l  == RestLane(1)
        cn == lv[l].ch
    IN
    /\ mode = "standalone"
    /\ pc[l] = "pub_create"
    /\ Channels' = [Channels EXCEPT ![cn] = NewChannel]
    /\ SetLane(l, "rest", [lv[l] EXCEPT !.ch = ""])
    /\ UNCHANGED <<mode, lim, nbreak, due, Users, ID, SocketID, owner, kvChannels, kvUsers,
                   msgs, sock, out, nframes, npub, hist, lost>>

\* trigger -> Broadcast -> PublishRedisEvent, distributed: PUBLISH to "events"; every
\* subscriber loop gets the message
PublishRedisEvent(p, e, cn) ==
    /\ mode = "distributed"
    /\ p \in Running
    /\ pc[RestLane(p)] = "rest"
    /\ npub < lim.pubs
    /\ npub' = npub + 1
    /\ due' = Append(due, AtBroadcast(p, e, cn))
    /\ msgs' = [q \in Procs |-> IF q \in Hearing
                                THEN Append(msgs[q], EncodeRequest(Request(e, cn, npub + 1)))
                                ELSE msgs[q]]
    /\ UNCHANGED <<mode, lim, nbreak, Users, ID, SocketID, owner, Channels, kvChannels,
                   kvUsers, sock, out, pc, nframes, hist, lost>>

PublishEvent(p, e, cn) == PublishRedisEvent(p, e, cn) /\ UNCHANGED lv

\* the publish request of the REST endpoint for one channel
PublishDistributed(p, cn) == PublishEvent(p, DefaultEvent, cn)

\* redisSubscriberLoop: psc.Receive returns a message.  One that does not decode is
\* logged; handleRedisEventRequest asks the event callback, if there is one (lim.cb), and
\* returns when it says false or when GetApp fails; else realBroadcast ->
\* GetOrCreateChannel follows
LoopReceive(p) ==
    LET l  == LoopLane(p)
        m  == Head(msgs[p])
        er == DecodeRequest(m)
    IN
    /\ mode = "distributed"
    /\ pc[l] = "recv"
    /\ msgs[p] # << >>
    /\ msgs' = [msgs EXCEPT ![p] = Tail(@)]
    /\ IF m = Undecodable
       THEN UNCHANGED <<pc, lv>>
       ELSE \E ok \in (IF lim.cb THEN BOOLEAN ELSE {TRUE}) :
              LET loc == IF lim.cb
                         THEN [lv[l] EXCEPT !.seen = Append(@, [er |-> er, ok |-> ok])]
                         ELSE lv[l]
              IN  IF ~ok \/ ConfigGetApp(er.Application) = {}
                  THEN SetLane(l, "recv", loc)
                  ELSE SetLane(l, "gocc_get", [loc EXCEPT !.ev = er])
    /\ UNCHANGED <<mode, lim, nbreak, due, Users, ID, SocketID, owner, Channels, kvChannels,
                   kvUsers, sock, out, nframes, npub, hist, lost>>

\* the errors psc.Receive, psc.Subscribe and getPool may return
LoopErrors == {"read tcp: use of closed network connection", "EOF"}

\* a loop that takes every error for the end of the connection
IsAnyError(e) == e \in LoopErrors

\* redisSubscriberLoopWithRetry: strings.Contains(err.Error(), "use of closed network")
IsClosedNetwork(e) == e = "read tcp: use of closed network connection"

\* another publisher on the store sends a message the loops cannot use
PublishForeign ==
    /\ mode = "distributed"
    /\ npub < lim.pubs
    /\ npub' = npub + 1
    /\ due' = Append(due, AtPublish(0, ""))
    /\ \E m \in {Undecodable, ForeignApp(npub + 1)} :
         msgs' = [q \in Procs |-> IF q \in Hearing THEN Append(msgs[q], m) ELSE msgs[q]]
    /\ UNCHANGED <<mode, lim, nbreak, Users, ID, SocketID, owner, Channels, kvChannels,
                   kvUsers, sock, out, pc, lv, nframes, hist, lost>>

\* redisSubscriberLoop: psc.Receive returns an error; the loop returns it, the deferred
\* psc.Close drops what was not received, and redisSubscriberLoopWithRetry returns or
\* sleeps
ReceiveError(p, e) ==
    LET l == LoopLane(p) IN
    /\ mode = "distributed"
    /\ pc[l] = "recv"
    /\ nbreak < lim.breaks
    /\ nbreak' = nbreak + 1
    /\ msgs' = [msgs EXCEPT ![p] = << >>]
    /\ SetLane(l, IF IsClosedNetwork(e) THEN "stopped" ELSE "wait",
               [lv[l] EXCEPT !.err = Append(@, e)])
    /\ UNCHANGED <<mode, lim, due, Users, ID, SocketID, owner, Channels, kvChannels,
                   kvUsers, sock, out, nframes, npub, hist, lost>>

\* redisSubscriberLoopWithRetry after time.Sleep: redisSubscriberLoop again; getPool and
\* psc.Subscribe succeed
Resubscribe(p) ==
    LET l == LoopLane(p) IN
    /\ pc[l] = "wait"
    /\ SetLane(l, "recv", lv[l])
    /\ UNCHANGED <<mode, lim, nbreak, due, Users, ID, SocketID, owner, Channels, kvChannels,
                   kvUsers, msgs, sock, out, nframes, npub, hist, lost>>

\* redisSubscriberLoopWithRetry after time.Sleep: getPool or psc.Subscribe returns an
\* error
ResubscribeError(p, e) ==
    LET l == LoopLane(p) IN
    /\ pc[l] = "wait"
    /\ nbreak < lim.breaks
    /\ nbreak' = nbreak + 1
    /\ SetLane(l, IF IsClosedNetwork(e) THEN "stopped" ELSE "wait",
               [lv[l] EXCEPT !.err = Append(@, e)])
    /\ UNCHANGED <<mode, lim, due, Users, ID, SocketID, owner, Channels, kvChannels,
                   kvUsers, msgs, sock, out, nframes, npub, hist, lost>>

\* DB.GetOrCreateChannel: watchAndGet; an existing channel is returned (unwatch)
GetOrCreateGet(l) ==
    LET cn == lv[l].ev.Channel IN
    /\ pc[l] = "gocc_get"
    /\ IF kvChannels[cn].exists
       THEN SetLane(l, IF DOMAIN kvChannels[cn].Users = {} THEN Home(l) ELSE "walk",
                    [lv[l] EXCEPT !.todo = DOMAIN kvChannels[cn].Users,
                                  !.ev = IF DOMAIN kvChannels[cn].Users = {}
                                         THEN NoEvent ELSE @])
       ELSE SetLane(l, "gocc_commit", Watching(l, cn, lv[l]))
    /\ UNCHANGED <<mode, lim, nbreak, due, Users, ID, SocketID, owner, Channels, kvChannels,
                   kvUsers, msgs, sock, out, nframes, npub, hist, lost>>

\* DB.GetOrCreateChannel: updateAndCommit of a new, empty channel; a nil reply retries
GetOrCreateCommit(l) ==
    LET cn == lv[l].ev.Channel IN
    /\ pc[l] = "gocc_commit"
    /\ \E r \in ExecOutcomes(l) :
         IF r = "committed"
         THEN /\ kvChannels' = [kvChannels EXCEPT ![cn] = NewChannel]
              /\ pc' = [pc EXCEPT ![l] = Home(l)]
              /\ lv' = AfterCommit(l, cn, [lv[l] EXCEPT !.ev = NoEvent])
         ELSE /\ SetLane(l, "gocc_get", [lv[l] EXCEPT !.key = "", !.dirty = FALSE])
              /\ UNCHANGED kvChannels
    /\ UNCHANGED <<mode, lim, nbreak, due, Users, ID, SocketID, owner, Channels, kvUsers,
                   msgs, sock, out, nframes, npub, hist, lost>>

\* the keys the range over ch.Users may still produce: in standalone mode ch.Users is the
\* live map of the application (a deleted entry is not produced), in distributed mode the
\* copy decoded from the store
Remaining(l) ==
    IF mode = "standalone"
    THEN lv[l].todo \cap DOMAIN (IF lv[l].rdCh.exists THEN lv[l].rdCh.Users
                                 ELSE Channels[lv[l].ev.Channel].Users)
    ELSE lv[l].todo

\* realBroadcast, one turn of the loop: u = GetUserByID(uid); socketSend if u # nil.
\* The range over the decoded copy ends with its last key; the range over the live map
\* ends in WalkEnd, after the body of the last turn.
WalkStep(l, uid) ==
    LET p    == l[2]
        e    == lv[l].ev
        f    == Frame(e.Name, e.Channel, e.Data, e.pub)
        rest == Remaining(l) \ {uid}
        last == rest = {} /\ mode = "distributed"
        next == IF last THEN Home(l) ELSE "walk"
        loc  == [lv[l] EXCEPT !.todo = rest, !.ev = IF last THEN NoEvent ELSE @]
    IN
    /\ pc[l] = "walk"
    /\ uid \in Remaining(l)
    /\ IF GetUserByID(p, uid) = {}
       THEN /\ SetLane(l, next, loc)
            /\ UNCHANGED <<out, lost>>
       ELSE \E u \in GetUserByID(p, uid) :
              /\ out' = OutAfterSend(u, f)
              /\ lost' = LostAfterSend(u, f)
              /\ SetLane(l, PcAfterSend(u, next), LvAfterSend(loc, u, next))
    /\ UNCHANGED <<mode, lim, nbreak, due, Users, ID, SocketID, owner, Channels, kvChannels,
                   kvUsers, msgs, sock, nframes, npub, hist>>

\* realBroadcast, standalone: the range finds no key left
WalkEnd(l) ==
    /\ pc[l] = "walk"
    /\ Remaining(l) = {}
    /\ SetLane(l, Home(l), [lv[l] EXCEPT !.todo = {}, !.ev = NoEvent, !.rdCh = NoChannel])
    /\ UNCHANGED <<mode, lim, nbreak, due, Users, ID, SocketID, owner, Channels, kvChannels,
                   kvUsers, msgs, sock, out, nframes, npub, hist, lost>>

\* lane l is about to write the user map of channel cn of the standalone application:
\* SubscribeUser or UnsubscribeUser from the reader of a connection, or the
\* UnsubscribeUser of RemoveUser
WritesUsersOf(l, cn) ==
    \/ /\ l[1] = "conn"
       /\ pc[l] = "handle"
       /\ lv[l].in.valid /\ ~Panics(lv[l].in)
       /\ lv[l].in.channel = cn
       /\ GetUserByID(owner[l[2]], ID[l[2]]) # {}
       /\ \/ lv[l].in.event = "pusher:subscribe" /\ ~Unauthorized(l[2], lv[l].in)
          \/ lv[l].in.event = "pusher:unsubscribe" /\ ID[l[2]] \in DOMAIN Channels[cn].Users
    \/ /\ pc[l] = "td_start"
       /\ GetUserByID(owner[lv[l].td], ID[lv[l].td]) # {}
       /\ ID[lv[l].td] \in DOMAIN Channels[cn].Users

\* Channel.Users is a plain map, written by lane l while the range of realBroadcast reads
\* it: the runtime may stop the process ("concurrent map iteration and map write")
MapRaceFatal(l) ==
    /\ mode = "standalone"
    /\ l # Walker
    /\ pc[Walker] = "walk"
    /\ ~lv[Walker].rdCh.exists
    /\ WritesUsersOf(l, lv[Walker].ev.Channel)
    /\ Exits(1)

\* ------------------------------------------------------------ REST API
\* an application name and an application key that the configuration does not hold
UnknownApp == "nosuchapp"
UnknownKey == "nosuchkey"

\* the application names a REST request may carry
RestApps == {AppName, UnknownApp}

\* Config.GetAppFromKey
ConfigGetAppFromKey(key) == { a \in ConfigApps : a.Key = key }

\* Supervisor.GetApp: the application of that name, or error 404
GetApp(name) == IF ConfigGetApp(name) # {} THEN "nil" ELSE "404"

\* Supervisor.GetAppFromKey: error 404 for a key of no application
GetAppFromKey(key) ==
    IF ConfigGetAppFromKey(key) = {} THEN "404"
    ELSE GetApp((CHOOSE a \in ConfigGetAppFromKey(key) : TRUE).Name)

\* returnErr: http.Error with the code of the error and the errorBody
returnErr(code, msg) ==
    [code |-> code, body |-> [error |-> [code |-> code, message |-> msg]]]

\* json.Marshal of a struct whose members are all tagged omitempty: a member that holds
\* the zero value of its type is left out
MarshalOmitEmpty(obj, zero) ==
    [f \in { x \in DOMAIN obj : obj[x] # zero[x] } |-> obj[f]]

\* json.Marshal of a getChannelResponse
Marshal(obj, zero) == MarshalOmitEmpty(obj, zero)

\* the zero value of a getChannelResponse
ZeroStatus == [occupied |-> FALSE, user_count |-> 0, subscription_count |-> 0]

\* the handler getChannel, getChannelResponse{Occupied: ch.UserCount() > 0, ...}
WithOccupied(m) == [ZeroStatus EXCEPT !.occupied = UserCount(m) > 0]

\* the handler getChannel with a Channel decoded from the store: Occupied and
\* SubscriptionCount always, UserCount only for a "presence-" channel
getChannelResponse(cn, m) ==
    [code |-> 200,
     body |-> Marshal([occupied |-> UserCount(m) > 0,
                       user_count |-> IF IsPresence(cn) THEN UserCount(m) ELSE 0,
                       subscription_count |-> SubscriptionCount(m)],
                      ZeroStatus)]

\* channelsResponseItem{UserCount: c.UserCount()}
channelsResponseItem(m) == [user_count |-> UserCount(m)]

\* a listing that leaves out the channels that have no user
WithOccupiedItem(body, cn, m) ==
    [x \in (DOMAIN body.channels) \cup (IF UserCount(m) = 0 THEN {} ELSE {cn}) |->
        IF x = cn THEN channelsResponseItem(m) ELSE body.channels[x]]

\* the body of a channelsResponse with one more item
WithItem(body, cn, m) ==
    [x \in (DOMAIN body.channels) \cup {cn} |->
        IF x = cn THEN channelsResponseItem(m) ELSE body.channels[x]]

\* GET /apps/{app}/channels/{chan}: getChannel -> Supervisor.GetOrCreateChannel.  An
\* unknown application is answered 404.  Standalone: the lookup of getOrCreateChannel; on
\* a hit the handler holds the Channel of the application and reads ch.UserCount() for
\* Occupied (StatusSum follows), a miss is followed by StatusCreate.  Distributed:
\* StatusGet follows.
GetStatus(p, app, cn) ==
    LET l == RestLane(p) IN
    /\ p \in Running
    /\ pc[l] = "rest"
    /\ IF GetApp(app) # "nil"
       THEN SetLane(l, "responded",
                    [lv[l] EXCEPT !.resp = returnErr(404, "No such application"),
                                  !.ret = "refused"])
       ELSE IF mode = "distributed"
       THEN SetLane(l, "st_get", [lv[l] EXCEPT !.ch = cn])
       ELSE IF Channels[cn].exists
       THEN SetLane(l, "st_sum",
                    [lv[l] EXCEPT !.ch = cn, !.ret = "found",
                                  !.resp = [code |-> 200,
                                            body |-> WithOccupied(Channels[cn].Users)]])
       ELSE SetLane(l, "st_create", [lv[l] EXCEPT !.ch = cn])
    /\ UNCHANGED <<mode, lim, nbreak, due, Users, ID, SocketID, owner, Channels, kvChannels,
                   kvUsers, msgs, sock, out, nframes, npub, hist, lost>>

\* getOrCreateChannel, standalone, after the lookup missed: a new, empty Channel is
\* assigned to a.Channels[cn], whatever is there by now; the handler holds it and reads
\* ch.UserCount() for Occupied
StatusCreate(l) ==
    LET cn == lv[l].ch IN
    /\ mode = "standalone"
    /\ pc[l] = "st_create"
    /\ Channels' = [Channels EXCEPT ![cn] = NewChannel]
    /\ SetLane(l, "st_sum",
               [lv[l] EXCEPT !.ret = "created",
                             !.resp = [code |-> 200, body |-> WithOccupied(NewChannel.Users)]])
    /\ UNCHANGED <<mode, lim, nbreak, due, Users, ID, SocketID, owner, kvChannels, kvUsers,
                   msgs, sock, out, nframes, npub, hist, lost>>

\* the user map of the Channel the handler getChannel holds in standalone mode: that of
\* the application, or the one a later assignment to a.Channels[cn] has replaced
HeldUsers(l) ==
    IF lv[l].rdCh.exists THEN lv[l].rdCh.Users ELSE Channels[lv[l].ch].Users

\* the handler getChannel, standalone: SubscriptionCount: ch.SubscriptionCount()
StatusSum(l) ==
    LET st == [lv[l].resp.body EXCEPT !.subscription_count = SubscriptionCount(HeldUsers(l))]
    IN
    /\ mode = "standalone"
    /\ pc[l] = "st_sum"
    /\ IF IsPresence(lv[l].ch)
       THEN SetLane(l, "st_count", [lv[l] EXCEPT !.resp.body = st])
       ELSE SetLane(l, "responded",
                    [lv[l] EXCEPT !.resp.body = Marshal(st, ZeroStatus), !.rdCh = NoChannel])
    /\ UNCHANGED <<mode, lim, nbreak, due, Users, ID, SocketID, owner, Channels, kvChannels,
                   kvUsers, msgs, sock, out, nframes, npub, hist, lost>>

\* the handler getChannel, standalone, "presence-" channel: resp.UserCount = ch.UserCount()
StatusCount(l) ==
    LET st == [lv[l].resp.body EXCEPT !.user_count = UserCount(HeldUsers(l))] IN
    /\ mode = "standalone"
    /\ pc[l] = "st_count"
    /\ SetLane(l, "responded",
               [lv[l] EXCEPT !.resp.body = Marshal(st, ZeroStatus), !.rdCh = NoChannel])
    /\ UNCHANGED <<mode, lim, nbreak, due, Users, ID, SocketID, owner, Channels, kvChannels,
                   kvUsers, msgs, sock, out, nframes, npub, hist, lost>>

\* Channel.Users is a plain map, written by lane l while the range of SubscriptionCount
\* reads it: the runtime may stop the process ("concurrent map iteration and map write")
StatusRaceFatal(l) ==
    /\ mode = "standalone"
    /\ l # Walker
    /\ pc[Walker] = "st_sum"
    /\ ~lv[Walker].rdCh.exists
    /\ WritesUsersOf(l, lv[Walker].ch)
    /\ Exits(1)

\* DB.GetOrCreateChannel for the handler getChannel: watchAndGet; an existing channel is
\* returned (unwatch) and the handler answers from it
StatusGet(l) ==
    LET cn == lv[l].ch IN
    /\ pc[l] = "st_get"
    /\ IF kvChannels[cn].exists
       THEN SetLane(l, "responded",
                    [lv[l] EXCEPT !.ret = IF @ = "retried" THEN @ ELSE "found",
                                  !.resp = getChannelResponse(cn, kvChannels[cn].Users)])
       ELSE SetLane(l, "st_commit", Watching(l, cn, lv[l]))
    /\ UNCHANGED <<mode, lim, nbreak, due, Users, ID, SocketID, owner, Channels, kvChannels,
                   kvUsers, msgs, sock, out, nframes, npub, hist, lost>>

\* DB.GetOrCreateChannel for the handler getChannel: updateAndCommit of a new, empty
\* channel; a nil reply retries
StatusCommit(l) ==
    LET cn == lv[l].ch IN
    /\ pc[l] = "st_commit"
    /\ \E r \in ExecOutcomes(l) :
         IF r = "committed"
         THEN /\ kvChannels' = [kvChannels EXCEPT ![cn] = NewChannel]
              /\ pc' = [pc EXCEPT ![l] = "responded"]
              /\ lv' = AfterCommit(l, cn,
                           [lv[l] EXCEPT !.ret = "created",
                                         !.resp = getChannelResponse(cn, NewChannel.Users)])
         ELSE /\ SetLane(l, "st_get",
                         [lv[l] EXCEPT !.key = "", !.dirty = FALSE, !.ret = "retried"])
              /\ UNCHANGED kvChannels
    /\ UNCHANGED <<mode, lim, nbreak, due, Users, ID, SocketID, owner, Channels, kvUsers,
                   msgs, sock, out, nframes, npub, hist, lost>>

\* the channels of the application that exist in the store of the mode
Existing ==
    { cn \in ChanNames : IF mode = "standalone" THEN Channels[cn].exists
                         ELSE kvChannels[cn].exists }

\* GET /apps/{app}/channels: appChannels -> Supervisor.GetChannels.  An unknown
\* application is answered 404.  Standalone: the range over app.Channels begins.
\* Distributed: DB.GetChannels, SCAN <app>/channels/*; a GET per key follows.
ListChannels(p, app) ==
    LET l == RestLane(p) IN
    /\ p \in Running
    /\ pc[l] = "rest"
    /\ IF GetApp(app) # "nil"
       THEN SetLane(l, "responded",
                    [lv[l] EXCEPT !.resp = returnErr(404, "No such application"),
                                  !.ret = "refused"])
       ELSE SetLane(l, IF Existing = {} THEN "responded" ELSE "ls_read",
                    [lv[l] EXCEPT !.chs = Existing, !.ret = "listed",
                                  !.resp = [code |-> 200, body |-> [channels |-> << >>]]])
    /\ UNCHANGED <<mode, lim, nbreak, due, Users, ID, SocketID, owner, Channels, kvChannels,
                   kvUsers, msgs, sock, out, nframes, npub, hist, lost>>

\* the channels the listing may read next: those found when it began (lv.chs) and, in
\* standalone mode, where the range runs over the live map, those assigned since
Listable(l) ==
    (lv[l].chs \cup (IF mode = "standalone" THEN Existing ELSE {}))
        \ DOMAIN lv[l].resp.body.channels

\* appChannels, one turn of the loop (standalone), or one GET of DB.GetChannels and the
\* turn of appChannels for it (distributed): the item of cn is c.UserCount().  The last
\* channel found when the listing began ends it.
ListRead(l, cn) ==
    LET m    == IF mode = "standalone" THEN Channels[cn].Users ELSE kvChannels[cn].Users
        rest == lv[l].chs \ (DOMAIN lv[l].resp.body.channels \cup {cn})
    IN
    /\ pc[l] = "ls_read"
    /\ cn \in Listable(l)
    /\ SetLane(l, IF rest = {} THEN "responded" ELSE "ls_read",
               [lv[l] EXCEPT !.resp.body = [channels |-> WithItem(@, cn, m)]])
    /\ UNCHANGED <<mode, lim, nbreak, due, Users, ID, SocketID, owner, Channels, kvChannels,
                   kvUsers, msgs, sock, out, nframes, npub, hist, lost>>

\* Application.Channels is a plain map, assigned by the reader of connection c
\* (getOrCreateChannel after a miss) while the range of appChannels reads it: the runtime
\* may stop the process ("concurrent map iteration and map write")
ListRaceFatal(c) ==
    /\ mode = "standalone"
    /\ pc[RestLane(1)] = "ls_read"
    /\ pc[ConnLane(c)] = "sub_create"
    /\ Exits(1)

\* a request that names no application of the configuration, on the routes that are not
\* modelled further: getChannelUsers and trigger (GetApp fails), establishConnection
\* (GetAppFromKey fails, before the Upgrade); returnErr answers with the code of the error
RefuseUnknown(p, route) ==
    LET l   == RestLane(p)
        err == IF route = "connect" THEN GetAppFromKey(UnknownKey) ELSE GetApp(UnknownApp)
    IN
    /\ p \in Running
    /\ pc[l] = "rest"
    /\ err # "nil"
    /\ SetLane(l, "responded",
               [lv[l] EXCEPT !.ret = "refused",
                             !.resp = returnErr(404, IF route = "connect"
                                                     THEN "Unknown application key"
                                                     ELSE "No such application")])
    /\ UNCHANGED <<mode, lim, nbreak, due, Users, ID, SocketID, owner, Channels, kvChannels,
                   kvUsers, msgs, sock, out, nframes, npub, hist, lost>>

\* POST /apps/{app}/events with a body that json.Decode refuses: trigger answers 400
\* before it looks the application up
TriggerUndecodable(p, app) ==
    LET l == RestLane(p) IN
    /\ p \in Running
    /\ pc[l] = "rest"
    /\ SetLane(l, "responded",
               [lv[l] EXCEPT !.ret = IF GetApp(app) = "nil" THEN "invalid" ELSE "refused",
                             !.resp = returnErr(400, "undecodable")])
    /\ UNCHANGED <<mode, lim, nbreak, due, Users, ID, SocketID, owner, Channels, kvChannels,
                   kvUsers, msgs, sock, out, nframes, npub, hist, lost>>

\* POST /apps/{app}/events for a known application with ev.Channels = chl: the body
\* decodes, GetApp finds the application, the Event is built
Trigger(p, chl) ==
    LET l == RestLane(p) IN
    /\ p \in Running
    /\ pc[l] = "rest"
    /\ lv[l].trig = NoTrigger
    /\ npub + Len(chl) <= lim.pubs
    /\ SetLane(l, "rest", [lv[l] EXCEPT !.trig = [list |-> chl, at |-> 0]])
    /\ UNCHANGED <<mode, lim, nbreak, due, Users, ID, SocketID, owner, Channels, kvChannels,
                   kvUsers, msgs, sock, out, nframes, npub, hist, lost>>

\* a turn of the range over ev.Channels is to come in the publish request of lane l
TriggerTurn(l) ==
    /\ lv[l].trig.at >= 0
    /\ lv[l].trig.at < Len(lv[l].trig.list)

\* trigger, one turn of the range over ev.Channels, standalone: Broadcast ->
\* realBroadcast, which returns to the range when its walk is over
TriggerStandalone ==
    LET l == RestLane(1) IN
    /\ TriggerTurn(l)
    /\ BroadcastStandalone(lv[l].trig.list[lv[l].trig.at + 1],
                           [lv[l] EXCEPT !.trig.at = @ + 1])

\* trigger, one turn of the range over ev.Channels, distributed: Broadcast ->
\* PublishRedisEvent
TriggerDistributed(p) ==
    LET l == RestLane(p) IN
    /\ TriggerTurn(l)
    /\ PublishRedisEvent(p, DefaultEvent, lv[l].trig.list[lv[l].trig.at + 1])
    /\ lv' = [lv EXCEPT ![l].trig.at = @ + 1]

\* trigger, one turn of the range over ev.Channels, distributed: getPool or PUBLISH
\* fails, PublishRedisEvent returns a 500 error, which trigger logs; no loop gets the
\* message
TriggerBroadcastError(p) ==
    LET l  == RestLane(p)
        cn == lv[l].trig.list[lv[l].trig.at + 1]
    IN
    /\ mode = "distributed"
    /\ p \in Running
    /\ pc[l] = "rest"
    /\ TriggerTurn(l)
    /\ npub < lim.pubs
    /\ nbreak < lim.breaks
    /\ nbreak' = nbreak + 1
    /\ npub' = npub + 1
    /\ due' = Append(due, [AtPublish(p, cn) EXCEPT !.to = {}])
    /\ lv' = [lv EXCEPT ![l].trig.at = @ + 1, ![l].err = Append(@, "Broadcast error")]
    /\ UNCHANGED <<mode, lim, Users, ID, SocketID, owner, Channels, kvChannels, kvUsers,
                   msgs, sock, out, pc, nframes, hist, lost>>

\* trigger after the range over ev.Channels: returnJSON(w, nil)
TriggerRespond(p) ==
    LET l == RestLane(p) IN
    /\ pc[l] = "rest"
    /\ lv[l].trig.at = Len(lv[l].trig.list)
    /\ SetLane(l, "responded", [lv[l] EXCEPT !.ret = "published",
                                             !.resp = [code |-> 200, body |-> "null"]])
    /\ UNCHANGED <<mode, lim, nbreak, due, Users, ID, SocketID, owner, Channels, kvChannels,
                   kvUsers, msgs, sock, out, nframes, npub, hist, lost>>

\* the handler returns: the response is with the client
Responded(l) ==
    /\ pc[l] = "responded"
    /\ SetLane(l, "rest", [lv[l] EXCEPT !.ch = "", !.ret = "", !.chs = {},
                                        !.resp = NoResponse, !.trig = NoTrigger])
    /\ UNCHANGED <<mode, lim, nbreak, due, Users, ID, SocketID, owner, Channels, kvChannels,
                   kvUsers, msgs, sock, out, nframes, npub, hist, lost>>

\* ----------------------------------------------------------------- next
\* accepting a connection
Accepting ==
    \/ \E c \in Conns, p \in Procs : Connect(c, p)
    \/ \E c \in Conns : AllocStandalone(c)
    \/ \E c \in Conns : AllocGet(c)
    \/ \E c \in Conns : AllocCommit(c)
    \/ \E c \in Conns : Register(c)
    \/ \E c \in Conns : \E sid \in lim.sids : Handshake(c, sid)

\* a connection fails
Failing ==
    \/ \E c \in Conns : Break(c)
    \/ \E c \in Conns : ReadError(c)
    \/ \E c \in Conns : PeerClose(c)

\* socketFinish
Finishing ==
    \/ \E l \in Lanes : FinishStandalone(l)
    \/ \E l \in Lanes : FinishStart(l)
    \/ \E l \in Lanes : FinishDelGet(l)
    \/ \E l \in Lanes : FinishDelCommit(l)
    \/ \E l \in Lanes : FinishUidGet(l)
    \/ \E l \in Lanes : FinishUidCommit(l)

\* the frames connection c may receive: any frame at all, or those of a client that
\* subscribes and unsubscribes, signing where it must
Frames(c) ==
    IF lim.any THEN InFrames ELSE
    { InFrame("pusher:subscribe", cn,
              IF IsPrivate(cn) THEN Sign("1234567890", "abcdefghij", SocketID[c], cn)
              ELSE NoAuth, TRUE) : cn \in lim.chans }
    \cup { InFrame("pusher:unsubscribe", cn, NoAuth, TRUE) : cn \in lim.chans }

\* subscribing and unsubscribing
Membership ==
    \/ \E c \in Conns : \E f \in Frames(c) : ReadFrame(c, f)
    \/ \E c \in Conns : HandleSubscribeStandalone(c)
    \/ \E c \in Conns : CreateAndSubscribe(c)
    \/ \E c \in Conns : HandleUnsubscribeStandalone(c)
    \/ \E c \in Conns : HandleSubscribeDistributed(c)
    \/ \E c \in Conns : SubGet(c)
    \/ \E c \in Conns : SubCommit(c)
    \/ \E c \in Conns : HandleUnsubscribeDistributed(c)
    \/ \E c \in Conns : UnsubGet(c)
    \/ \E c \in Conns : UnsubCommit(c)

\* publishing and the fan-out
FanOut ==
    \/ \E cn \in lim.chans : PublishStandalone(cn)
    \/ CreateForPublish
    \/ \E p \in Procs : \E cn \in lim.chans : PublishDistributed(p, cn)
    \/ \E p \in Procs : LoopReceive(p)
    \/ \E l \in Lanes : GetOrCreateGet(l)
    \/ \E l \in Lanes : GetOrCreateCommit(l)
    \/ \E l \in Lanes, uid \in UIDs : WalkStep(l, uid)
    \/ \E l \in Lanes : WalkEnd(l)
    \/ \E l \in Lanes : MapRaceFatal(l)

\* Spec: clients connect, subscribe, unsubscribe and go away; events are published
Init == Start({"standalone", "distributed"}, 1, MaxConns, MaxFrames, MaxPublish,
              MaxBreaks, {"my-channel"}, {"1.1"}, FALSE)

Next ==
    \/ Accepting
    \/ Failing
    \/ Finishing
    \/ Membership
    \/ FanOut

Spec == Init /\ [][Next]_vars

\* SpecAuth: clients send any frame, signed or not, on connections with different
\* socket ids; nothing is published and no connection fails
Protocol ==
    \/ \E c \in Conns : HandleUndecodable(c)
    \/ \E c \in Conns : HandlePing(c)
    \/ \E c \in Conns : HandleOther(c)
    \/ \E c \in Conns : HandleInvalid(c)
    \/ \E c \in Conns : HandleUnauthorized(c)
    \/ \E c \in Conns : HandlePanic(c)

InitAuth == Start({"standalone", "distributed"}, 1, MaxConns, MaxFrames, 0, 0,
                  FrameChans, SockIDs, TRUE)

NextAuth ==
    \/ Accepting
    \/ Finishing
    \/ Membership
    \/ Protocol

SpecAuth == InitAuth /\ [][NextAuth]_vars

\* SpecPeers: two processes share the store; no connection fails
InitPeers == Start({"distributed"}, 2, MaxConns, MaxFrames, MaxPublish, 0,
                   {"my-channel"}, {"1.1"}, FALSE)

NextPeers ==
    \/ \E c \in Conns, p \in Procs : Connect(c, p)
    \/ \E c \in Conns : Register(c)
    \/ \E c \in Conns : \E sid \in lim.sids : Handshake(c, sid)
    \/ \E c \in Conns : AllocGet(c)
    \/ \E c \in Conns : AllocCommit(c)
    \/ \E c \in Conns : \E f \in Frames(c) : ReadFrame(c, f)
    \/ \E c \in Conns : HandleSubscribeDistributed(c)
    \/ \E c \in Conns : SubGet(c)
    \/ \E c \in Conns : SubCommit(c)
    \/ \E c \in Conns : HandleUnsubscribeDistributed(c)
    \/ \E c \in Conns : UnsubGet(c)
    \/ \E c \in Conns : UnsubCommit(c)
    \/ \E p \in Procs : \E cn \in lim.chans : PublishDistributed(p, cn)
    \/ \E p \in Procs : LoopReceive(p)
    \/ \E l \in Lanes : GetOrCreateGet(l)
    \/ \E l \in Lanes : GetOrCreateCommit(l)
    \/ \E l \in Lanes, uid \in UIDs : WalkStep(l, uid)

SpecPeers == InitPeers /\ [][NextPeers]_vars

\* SpecAccept: connections are accepted and closed, nothing else
InitAccept == Start({"standalone"}, 1, MaxAccepts, 0, 0, MaxAccepts, {}, {"1.1"}, FALSE)

NextAccept ==
    \/ \E c \in Conns, p \in Procs : Connect(c, p)
    \/ \E c \in Conns : AllocStandalone(c)
    \/ \E c \in Conns : Register(c)
    \/ \E c \in Conns : \E sid \in lim.sids : Handshake(c, sid)
    \/ \E l \in Lanes : FinishStandalone(l)
    \/ Failing

SpecAccept == InitAccept /\ [][NextAccept]_vars

\* SpecWalk: the standalone process with one client that subscribes and unsubscribes
\* while an event is published
InitWalk == Start({"standalone"}, 1, 1, MaxResub, MaxPublish, 0, {"my-channel"}, {"1.1"}, FALSE)

NextWalk ==
    \/ \E c \in Conns, p \in Procs : Connect(c, p)
    \/ \E c \in Conns : AllocStandalone(c)
    \/ \E c \in Conns : Register(c)
    \/ \E c \in Conns : \E sid \in lim.sids : Handshake(c, sid)
    \/ \E c \in Conns : \E f \in Frames(c) : ReadFrame(c, f)
    \/ \E c \in Conns : HandleSubscribeStandalone(c)
    \/ \E c \in Conns : CreateAndSubscribe(c)
    \/ \E c \in Conns : HandleUnsubscribeStandalone(c)
    \/ \E cn \in lim.chans : PublishStandalone(cn)
    \/ CreateForPublish
    \/ \E l \in Lanes, uid \in UIDs : WalkStep(l, uid)
    \/ \E l \in Lanes : WalkEnd(l)
    \/ \E l \in Lanes : MapRaceFatal(l)

SpecWalk == InitWalk /\ [][NextWalk]_vars

\* SpecStore: the ID list of the store; IDs are allocated for connections that are
\* accepted, and DeleteUserID is called directly, with any ID, by two callers
InitStore == Start({"distributed"}, 2, MaxConns, 0, 0, 0, {}, {"1.1"}, FALSE)

NextStore ==
    \/ \E c \in Conns, p \in Procs : Connect(c, p)
    \/ \E c \in Conns : AllocGet(c)
    \/ \E c \in Conns : AllocCommit(c)
    \/ \E l \in Lanes, uid \in UIDs : CallDeleteUserID(l, uid)
    \/ \E l \in Lanes : DeleteUserIDGet(l)
    \/ \E l \in Lanes : DeleteUserIDCommit(l)
    \/ \E l \in Lanes : CallReturned(l)

SpecStore == InitStore /\ [][NextStore]_vars

\* SpecLookup: clients connect, subscribe and unsubscribe, in either mode, while
\* GetChannel is called directly
InitLookup == Start({"standalone", "distributed"}, 1, MaxConns, MaxFrames, 0, 0,
                    {"my-channel"}, {"1.1"}, FALSE)

NextLookup ==
    \/ Accepting
    \/ Membership
    \/ \E l \in Lanes, cn \in lim.chans : CallGetChannel(l, cn)
    \/ \E l \in Lanes : GetChannelReturned(l)

SpecLookup == InitLookup /\ [][NextLookup]_vars

\* the REST API, but for the publishing of events
Rest ==
    \/ \E p \in Procs, app \in RestApps, cn \in lim.chans : GetStatus(p, app, cn)
    \/ \E l \in Lanes : StatusCreate(l)
    \/ \E l \in Lanes : StatusSum(l)
    \/ \E l \in Lanes : StatusCount(l)
    \/ \E l \in Lanes : StatusRaceFatal(l)
    \/ \E l \in Lanes : StatusGet(l)
    \/ \E l \in Lanes : StatusCommit(l)
    \/ \E p \in Procs, app \in RestApps : ListChannels(p, app)
    \/ \E l \in Lanes, cn \in ChanNames : ListRead(l, cn)
    \/ \E c \in Conns : ListRaceFatal(c)
    \/ \E p \in Procs, route \in {"users", "events", "connect"} : RefuseUnknown(p, route)
    \/ \E p \in Procs, app \in RestApps : TriggerUndecodable(p, app)
    \/ \E l \in Lanes : Responded(l)

\* the channel names of SpecRest
RestChans == {"my-channel", "presence-x"}

\* SpecRest: clients connect, subscribe, unsubscribe and go away, in either mode, while
\* the REST API is asked for the status of channels and for the list of channels
InitRest == Start({"standalone", "distributed"}, 1, MaxConns, MaxFrames, 0, 0,
                  RestChans, {"1.1"}, FALSE)

NextRest ==
    \/ Accepting
    \/ Membership
    \/ Rest

SpecRest == InitRest /\ [][NextRest]_vars

\* SpecKeep: a client connects, subscribes, unsubscribes and goes away, in either mode,
\* while events are published and the REST API is asked for the status of the channel and
\* for the list of channels
InitKeep == Start({"standalone", "distributed"}, 1, 1, MaxFrames, MaxPublish, MaxBreaks,
                  {"presence-x"}, {"1.1"}, FALSE)

NextKeep ==
    \/ Accepting
    \/ Failing
    \/ Finishing
    \/ Membership
    \/ FanOut
    \/ Rest

SpecKeep == InitKeep /\ [][NextKeep]_vars

\* ------------------------------------------------------------ observing
\* the user map of channel cn in the store of the mode
Store(cn) == IF mode = "standalone" THEN Channels[cn].Users ELSE kvChannels[cn].Users

\* the count stored for uid in the user map m
StoredCount(m, uid) == IF uid \in DOMAIN m THEN m[uid] ELSE 0

\* the writes of the frame of publish k attempted on a socket, by the log of the frames
\* written (out) or of those whose write failed (lost)
Count(log, k) == Cardinality({ i \in 1..Len(log) : log[i].pub = k })
Attempts(c, k) == Count(out[c], k) + Count(lost[c], k)

\* the positions of a lane inside socketFinish
TdStates == {"td_start", "td_del_get", "td_del_commit", "td_uid_get", "td_uid_commit"}

\* connection c has unsubscribed from cn, or was removed from it by RemoveUser
Unsubscribed(c, cn) == \E i \in 1..Len(hist[c]) : hist[c][i].op = "unsub" /\ hist[c][i].ch = cn

\* connection c subscribed to the channel of publish k before k was taken, and has not
\* unsubscribed from it
SubscribedBefore(c, k) ==
    /\ \E i \in 1..Len(hist[c]) :
         hist[c][i].op = "sub" /\ hist[c][i].ch = due[k].ch /\ hist[c][i].pub < k
    /\ ~Unsubscribed(c, due[k].ch)

\* no subscriber loop has a message to take or a walk to finish
Quiet == \A p \in Procs : msgs[p] = << >> /\ pc[LoopLane(p)] = "recv"

\* no user ID was given to two connections
NoIDTwice == \A c \in Conns, d \in Conns : (c # d /\ ID[c] # -1) => ID[c] # ID[d]

\* the smallest non-negative integer that is not in S
LeastAbsent(S) ==
    CHOOSE n \in 0..Cardinality(S) : n \notin S /\ \A m \in 0..(n - 1) : m \in S

\* SpecOrder: one client sends the frames of a script, in the order of the script
OrderFrames ==
    { InFrame("pusher:ping", "", NoAuth, FALSE), InFrame("client-event", "", NoAuth, FALSE),
      InFrame("pusher:subscribe", "", NoAuth, FALSE),
      InFrame("pusher:subscribe", "my-channel", NoAuth, TRUE),
      InFrame("pusher:subscribe", "private-x", NoAuth, TRUE),
      InFrame("pusher:unsubscribe", "my-channel", NoAuth, TRUE) }

Scripts == [1..MaxScript -> OrderFrames]

\* ReadMessage returns the frames of a connection in the order the peer sent them: a
\* turn of the loop that reads at the end of the stream instead of at its head
ReadLatestFirst(c) ==
    /\ nframes[c] < Len(lim.script)
    /\ \E f \in {lim.script[Len(lim.script) - nframes[c]]} : ReadFrame(c, f)

\* socketMessageHandleLoop, ReadMessage on the stream of a peer that sends lim.script:
\* the next frame of the script is returned
ReadScripted(c) ==
    /\ nframes[c] < Len(lim.script)
    /\ \E f \in {lim.script[nframes[c] + 1]} : ReadFrame(c, f)

InitOrder ==
    /\ mode \in {"standalone", "distributed"}
    /\ nbreak = 0
    /\ due = << >>
    /\ \E sq \in Scripts :
         lim = [procs |-> 1, conns |-> 1, frames |-> MaxScript, pubs |-> 0, breaks |-> 0,
                chans |-> {"my-channel"}, sids |-> {"1.1"}, any |-> TRUE, script |-> sq,
                cb |-> FALSE]
    /\ Users = [p \in Procs |-> {}]
    /\ ID = [c \in Conns |-> -1]
    /\ SocketID = [c \in Conns |-> ""]
    /\ owner = [c \in Conns |-> 0]
    /\ Channels = [cn \in ChanNames |-> NoChannel]
    /\ kvChannels = [cn \in ChanNames |-> NoChannel]
    /\ kvUsers = NoUsers
    /\ msgs = [p \in Procs |-> << >>]
    /\ sock = [c \in Conns |-> "none"]
    /\ out = [c \in Conns |-> << >>]
    /\ pc = [l \in Lanes |-> IF l[1] = "conn" THEN "idle"
                             ELSE IF l[1] = "loop" THEN "recv" ELSE "rest"]
    /\ lv = [l \in Lanes |-> NoLocals]
    /\ nframes = [c \in Conns |-> 0]
    /\ npub = 0
    /\ hist = [c \in Conns |-> << >>]
    /\ lost = [c \in Conns |-> << >>]

NextOrder ==
    \/ Accepting
    \/ \E c \in Conns : ReadScripted(c)
    \/ \E c \in Conns : HandleSubscribeStandalone(c)
    \/ \E c \in Conns : CreateAndSubscribe(c)
    \/ \E c \in Conns : HandleUnsubscribeStandalone(c)
    \/ \E c \in Conns : HandleSubscribeDistributed(c)
    \/ \E c \in Conns : SubGet(c)
    \/ \E c \in Conns : SubCommit(c)
    \/ \E c \in Conns : HandleUnsubscribeDistributed(c)
    \/ \E c \in Conns : UnsubGet(c)
    \/ \E c \in Conns : UnsubCommit(c)
    \/ \E c \in Conns : HandlePing(c)
    \/ \E c \in Conns : HandleOther(c)
    \/ \E c \in Conns : HandleInvalid(c)
    \/ \E c \in Conns : HandleUnauthorized(c)

SpecOrder == InitOrder /\ [][NextOrder]_vars

\* SpecLoop: the subscriber loop of one process loses its connection and subscribes
\* again while events are published
InitLoop == Start({"distributed"}, 1, 1, 1, MaxLoopPub, MaxLoopErr, {"my-channel"}, {"1.1"},
                  FALSE)

NextLoop ==
    \/ \E c \in Conns, p \in Procs : Connect(c, p)
    \/ \E c \in Conns : AllocGet(c)
    \/ \E c \in Conns : AllocCommit(c)
    \/ \E c \in Conns : Register(c)
    \/ \E c \in Conns : \E sid \in lim.sids : Handshake(c, sid)
    \/ \E c \in Conns : \E f \in Frames(c) : ReadFrame(c, f)
    \/ \E c \in Conns : HandleSubscribeDistributed(c)
    \/ \E c \in Conns : SubGet(c)
    \/ \E c \in Conns : SubCommit(c)
    \/ \E p \in Procs : \E cn \in lim.chans : PublishDistributed(p, cn)
    \/ PublishForeign
    \/ \E p \in Procs : LoopReceive(p)
    \/ \E p \in Procs, e \in LoopErrors : ReceiveError(p, e)
    \/ \E p \in Procs : Resubscribe(p)
    \/ \E p \in Procs, e \in LoopErrors : ResubscribeError(p, e)
    \/ \E l \in Lanes : GetOrCreateGet(l)
    \/ \E l \in Lanes : GetOrCreateCommit(l)
    \/ \E l \in Lanes, uid \in UIDs : WalkStep(l, uid)

SpecLoop == InitLoop /\ [][NextLoop]_vars

\* SpecCallback: two processes whose subscriber loops may have an event callback
\* (DB.eventCallback), and publishes of events whose strings JSON writes with escapes
MaxCbConns == 2   \* connections in a behaviour of SpecCallback
MaxCbPub   == 1   \* publishes in a behaviour of SpecCallback

InitCallback ==
    /\ mode = "distributed"
    /\ nbreak = 0
    /\ due = << >>
    /\ \E cb \in BOOLEAN :
         lim = [procs |-> 2, conns |-> MaxCbConns, frames |-> 1, pubs |-> MaxCbPub,
                breaks |-> 0, chans |-> {"my-channel"}, sids |-> {"1.1"}, any |-> FALSE,
                script |-> << >>, cb |-> cb]
    /\ Users = [p \in Procs |-> {}]
    /\ ID = [c \in Conns |-> -1]
    /\ SocketID = [c \in Conns |-> ""]
    /\ owner = [c \in Conns |-> 0]
    /\ Channels = [cn \in ChanNames |-> NoChannel]
    /\ kvChannels = [cn \in ChanNames |-> NoChannel]
    /\ kvUsers = NoUsers
    /\ msgs = [p \in Procs |-> << >>]
    /\ sock = [c \in Conns |-> "none"]
    /\ out = [c \in Conns |-> << >>]
    /\ pc = [l \in Lanes |-> IF l[1] = "conn" THEN "idle"
                             ELSE IF l[1] = "loop" THEN "recv" ELSE "rest"]
    /\ lv = [l \in Lanes |-> NoLocals]
    /\ nframes = [c \in Conns |-> 0]
    /\ npub = 0
    /\ hist = [c \in Conns |-> << >>]
    /\ lost = [c \in Conns |-> << >>]

NextCallback ==
    \/ \E c \in Conns, p \in Procs : Connect(c, p)
    \/ \E c \in Conns : AllocGet(c)
    \/ \E c \in Conns : AllocCommit(c)
    \/ \E c \in Conns : Register(c)
    \/ \E c \in Conns : \E sid \in lim.sids : Handshake(c, sid)
    \/ \E c \in Conns : \E f \in Frames(c) : ReadFrame(c, f)
    \/ \E c \in Conns : HandleSubscribeDistributed(c)
    \/ \E c \in Conns : SubGet(c)
    \/ \E c \in Conns : SubCommit(c)
    \/ \E p \in Procs : \E e \in Events, cn \in lim.chans : PublishEvent(p, e, cn)
    \/ PublishForeign
    \/ \E p \in Procs : LoopReceive(p)
    \/ \E l \in Lanes : GetOrCreateGet(l)
    \/ \E l \in Lanes : GetOrCreateCommit(l)
    \/ \E l \in Lanes, uid \in UIDs : WalkStep(l, uid)

SpecCallback == InitCallback /\ [][NextCallback]_vars

\* SpecTrigger: publish requests with a list of channels, while clients connect,
\* subscribe and unsubscribe; PUBLISH may fail
MaxList     == 2   \* channels in the list of a publish request
MaxTrigPub  == 2   \* broadcasts in a behaviour of SpecTrigger
MaxTrigErr  == 1   \* failures of PUBLISH in a behaviour of SpecTrigger
MaxTrigConn == 1   \* connections in a behaviour of SpecTrigger

\* eventPayload.Channels of a publish request
ChannelLists == UNION { [1..n -> lim.chans] : n \in 0..MaxList }

InitTrigger == Start({"standalone", "distributed"}, 1, MaxTrigConn, 2, MaxTrigPub,
                     MaxTrigErr, {"my-channel", "private-x"}, {"1.1"}, FALSE)

NextTrigger ==
    \/ Accepting
    \/ Membership
    \/ \E p \in Procs : \E chl \in ChannelLists : Trigger(p, chl)
    \/ TriggerStandalone
    \/ CreateForPublish
    \/ \E p \in Procs : TriggerDistributed(p)
    \/ \E p \in Procs : TriggerBroadcastError(p)
    \/ \E p \in Procs : TriggerRespond(p)
    \/ \E p \in Procs : Responded(RestLane(p))
    \/ \E p \in Procs : LoopReceive(p)
    \/ \E l \in Lanes : GetOrCreateGet(l)
    \/ \E l \in Lanes : GetOrCreateCommit(l)
    \/ \E l \in Lanes, uid \in UIDs : WalkStep(l, uid)
    \/ \E l \in Lanes : WalkEnd(l)

SpecTrigger == InitTrigger /\ [][NextTrigger]_vars

\* SpecSame: a supervisor without a store (process 1: a.Users = Users[1], a.Channels =
\* Channels, the ID of connection c in ID[c]) and a supervisor with a store of its own
\* (process 2: Users[2], kvUsers, kvChannels, the ID of c in the local uid of its lane)
\* are given the same calls, one after another; no call to the store fails, and with
\* one caller every EXEC commits
MaxCount == 2   \* subscriptions a user holds on one channel in a behaviour of SpecSame

\* GetUserByID of the supervisor with a store
dbUserByID(uid) == { c \in Users[2] : lv[ConnLane(c)].uid = uid }

\* everything an action of SpecSame leaves alone
SameRest == <<mode, lim, nbreak, due, SocketID, msgs, sock, out, nframes, npub, hist, lost>>

\* AddUser(app, conn): allocateUserID and registerUser; with a store, DB.allocateUserID
SameAddUser(c) ==
    LET l == ConnLane(c) IN
    /\ pc[l] = "idle"
    /\ \A d \in Conns : d < c => pc[ConnLane(d)] # "idle"
    /\ ID' = [ID EXCEPT ![c] = allocateUserID(IDsOf(1), Cardinality(Users[1]))]
    /\ kvUsers' = [exists |-> TRUE, UIDs |-> Append(kvUsers.UIDs, AllocatedUID(kvUsers))]
    /\ Users' = [p \in Procs |-> Users[p] \cup {c}]
    /\ owner' = [owner EXCEPT ![c] = 1]
    /\ SetLane(l, "read", [lv[l] EXCEPT !.uid = AllocatedUID(kvUsers)])
    /\ UNCHANGED <<SameRest, Channels, kvChannels>>

\* Subscribe(app, uid, cn): getOrCreateChannel and SubscribeUser; with a store,
\* DB.AddUserIDToChannel
SameSubscribe(uid, cn) ==
    /\ \A m \in {Channels[cn].Users, kvChannels[cn].Users} :
         uid \in DOMAIN m => m[uid] < MaxCount
    /\ Channels' = IF ManagedUser("Subscribe", 1, uid) # NilAppError THEN Channels
                   ELSE [Channels EXCEPT ![cn] =
                           [exists |-> TRUE, Users |-> SubscribeUser(@.Users, uid)]]
    /\ kvChannels' = IF dbUserByID(uid) = {} THEN kvChannels
                     ELSE [kvChannels EXCEPT ![cn] =
                             [exists |-> TRUE, Users |-> SubscribeUser(@.Users, uid)]]
    /\ UNCHANGED <<SameRest, Users, ID, owner, kvUsers, pc, lv>>

\* Unsubscribe(app, uid, cn): UnsubscribeUser on a channel that exists; with a store,
\* DB.DeleteUserIDFromChannel, whose error for a channel that does not exist is returned
SameUnsubscribe(uid, cn) ==
    /\ Channels' = IF ManagedUser("Unsubscribe", 1, uid) # NilAppError \/ ~Channels[cn].exists
                   THEN Channels
                   ELSE [Channels EXCEPT ![cn].Users = UnsubscribeUser(@, uid)]
    /\ kvChannels' = IF dbUserByID(uid) = {} \/ ~kvChannels[cn].exists
                     THEN kvChannels
                     ELSE [kvChannels EXCEPT ![cn].Users = UnsubscribeUser(@, uid)]
    /\ UNCHANGED <<SameRest, Users, ID, owner, kvUsers, pc, lv>>

\* RemoveUser(app, uid): UnsubscribeUser on every channel and unregisterUser; with a
\* store, DeleteUserIDFromChannel on the channels of GetChannels that hold uid, then
\* DeleteUserID and unregisterUser
SameRemoveUser(uid) ==
    /\ GetUserByID(1, uid) \cup dbUserByID(uid) # {}
    /\ Channels' = IF ManagedUser("RemoveUser", 1, uid) # NilAppError THEN Channels
                   ELSE UnsubscribeAll(Channels, uid)
    /\ kvChannels' = IF dbUserByID(uid) = {} THEN kvChannels
                     ELSE [cn \in ChanNames |->
                             IF cn \in ChannelsHolding(uid)
                             THEN [kvChannels[cn] EXCEPT !.Users = UnsubscribeUser(@, uid)]
                             ELSE kvChannels[cn]]
    /\ kvUsers' = IF dbUserByID(uid) = {} \/ ~kvUsers.exists THEN kvUsers
                  ELSE [kvUsers EXCEPT !.UIDs = RemoveFirst(@, uid)]
    /\ \E v \in (IF GetUserByID(1, uid) = {} THEN {0} ELSE GetUserByID(1, uid)),
          w \in (IF dbUserByID(uid) = {} THEN {0} ELSE dbUserByID(uid)) :
         /\ Users' = [p \in Procs |-> Users[p] \ {IF p = 1 THEN v ELSE w}]
         /\ pc' = [l \in Lanes |-> IF l \in {ConnLane(v), ConnLane(w)} /\ l[1] = "conn"
                                   THEN "done" ELSE pc[l]]
    /\ UNCHANGED <<SameRest, ID, owner, lv>>

\* GetOrCreateChannel(app, cn): getOrCreateChannel; with a store, DB.GetOrCreateChannel
SameGetOrCreateChannel(cn) ==
    /\ Channels' = IF Channels[cn].exists THEN Channels
                   ELSE [Channels EXCEPT ![cn] = NewChannel]
    /\ kvChannels' = IF kvChannels[cn].exists THEN kvChannels
                     ELSE [kvChannels EXCEPT ![cn] = NewChannel]
    /\ UNCHANGED <<SameRest, Users, ID, owner, kvUsers, pc, lv>>

InitSame == Start({"paired"}, 2, MaxAccepts, 0, 0, 0, {"my-channel", "private-x"}, {"1.1"},
                  FALSE)

NextSame ==
    \/ \E c \in Conns : SameAddUser(c)
    \/ \E uid \in UIDs, cn \in lim.chans : SameSubscribe(uid, cn)
    \/ \E uid \in UIDs, cn \in lim.chans : SameUnsubscribe(uid, cn)
    \/ \E uid \in UIDs : SameRemoveUser(uid)
    \/ \E cn \in lim.chans : SameGetOrCreateChannel(cn)

SpecSame == InitSame /\ [][NextSame]_vars

\* -------------------------------------------------------------- claims
\* C1: when RemoveUser returns without error for a user, the user's ID is a key of no
\* channel's user map, in the local maps (standalone) and in the shared store
\* (distributed), however many times the user had subscribed to a channel.
C1_RemovedFromEveryChannel ==
    [][\A l \in Lanes :
         ( /\ pc[l] \in TdStates
           /\ pc'[l] \notin TdStates
           /\ ~(pc[l] = "td_start" /\ GetUserByID(owner[lv[l].td], ID[lv[l].td]) = {}) )
         => \A cn \in ChanNames :
              /\ ID[lv[l].td] \notin DOMAIN Channels'[cn].Users
              /\ ID[lv[l].td] \notin DOMAIN kvChannels'[cn].Users]_vars

\* C2: no two registered connections hold the same user ID.
C2_DistinctIDs ==
    \A c \in Registered, d \in Registered : c # d => ID[c] # ID[d]

\* C3: in distributed mode no successful subscribe is lost: as long as nothing was
\* unsubscribed (no publish has touched the channel keys, and the user IDs are
\* distinct), the count stored for a user ID on a channel is the number of subscribes
\* of that ID to the channel that returned success.
C3_NoLostUpdate ==
    ( /\ mode = "distributed"
      /\ due = << >>
      /\ NoIDTwice
      /\ \A c \in Conns, cn \in ChanNames : ~Unsubscribed(c, cn) )
    => \A cn \in ChanNames, uid \in UIDs :
         StoredCount(kvChannels[cn].Users, uid)
           = SumOver([c \in Conns |-> IF ID[c] = uid THEN Outstanding(hist[c], cn) ELSE 0],
                     Conns)

C5_DeliveredAcrossProcesses ==
    (Quiet /\ NoIDTwice)
    => \A k \in 1..Len(due), c \in Conns :
         (due[k].at = 2 /\ c \in Users[1] /\ SubscribedBefore(c, k))
         => Count(out[c], k) = 1

\* C6: every publish has at most one write of its frame attempted on any socket, a
\* failed write included, in both modes; and in distributed mode the step that takes the
\* publish request writes to no socket.
C6_AtMostOnce ==
    [][ /\ \A c \in Conns, k \in 1..npub' :
             Count(out'[c], k) + Count(lost'[c], k) <= 1
        /\ (mode = "distributed" /\ npub' # npub) => (out' = out /\ lost' = lost) ]_vars

\* connection c is about to handle a subscribe to a private channel that carries no
\* auth, or an auth that is not the signature of its socket id and the channel under
\* the key and secret of its application
Refused(c) ==
    LET f == lv[ConnLane(c)].in IN
    /\ pc[ConnLane(c)] = "handle"
    /\ f.event = "pusher:subscribe"
    /\ f.valid
    /\ IsPrivate(f.channel)
    /\ f.auth # Sign("1234567890", "abcdefghij", SocketID[c], f.channel)

\* C7: a subscribe to a private channel without auth or with a wrong auth is answered
\* with pusher:error "unauthorized", changes no channel and no user map (the channel is
\* not created), and leaves the connection open and reading.
C7_Unauthorized ==
    [][\A c \in Conns :
         (Refused(c) /\ pc'[ConnLane(c)] # "handle")
         => /\ out'[c] = Append(out[c], Frame("pusher:error", "", "unauthorized", 0))
            /\ Channels' = Channels
            /\ kvChannels' = kvChannels
            /\ sock'[c] = "open"
            /\ pc'[ConnLane(c)] = "read"]_vars

\* C8: a registered user whose ID is a key of a private channel's user map has presented
\* the signature of its own socket id and that channel under its application's key and
\* secret.
C8_MemberOnlyByToken ==
    \A c \in Registered, cn \in ChanNames :
      (IsPrivate(cn) /\ ID[c] \in DOMAIN Store(cn))
      => \E i \in 1..Len(hist[c]) :
           /\ hist[c][i].op = "sub"
           /\ hist[c][i].ch = cn
           /\ hist[c][i].auth = Sign("1234567890", "abcdefghij", SocketID[c], cn)

\* C9: the ID allocated to a new connection is the smallest non-negative integer that
\* no registered user holds.
C9_SmallestFreeID ==
    [][\A c \in Conns :
         (pc[ConnLane(c)] = "adduser" /\ pc'[ConnLane(c)] = "register")
         => lv'[ConnLane(c)].uid = LeastAbsent(IDsOf(owner[c]))]_vars

\* C10: for a registered user with no operation in progress, the count stored for its ID
\* on a channel is the number of its successful subscribes minus its unsubscribes that
\* found a positive count, and the ID is a key exactly when that number is positive.
C10_CountMatches ==
    \A c \in Registered, cn \in ChanNames :
      pc[ConnLane(c)] = "read"
      => /\ StoredCount(Store(cn), ID[c]) = Outstanding(hist[c], cn)
         /\ (ID[c] \in DOMAIN Store(cn)) <=> (Outstanding(hist[c], cn) > 0)


\* the subscriptions a user map holds, counted one by one
Subscriptions(m) == UNION { { <<uid, i>> : i \in 1..m[uid] } : uid \in DOMAIN m }

\* the user maps there are: those of the application and those of the store
AllMaps ==
    { Channels[cn].Users : cn \in ChanNames } \cup { kvChannels[cn].Users : cn \in ChanNames }

\* C11: in every state and for every channel, in the application and in the store, every
\* stored count is at least 1, SubscriptionCount is the sum of the stored counts,
\* UserCount is the number of keys, and SubscriptionCount >= UserCount.
C11_CountsPositive ==
    \A m \in AllMaps :
      /\ \A uid \in DOMAIN m : m[uid] >= 1
      /\ SubscriptionCount(m) = Cardinality(Subscriptions(m))
      /\ UserCount(m) = Cardinality(DOMAIN m)
      /\ SubscriptionCount(m) >= UserCount(m)

\* a user has subscribed and unsubscribed, and its entry is gone from the existing channel
C11_Witness ==
    \E c \in Conns, cn \in ChanNames :
      /\ Len(hist[c]) = 2
      /\ hist[c][1].op = "sub" /\ hist[c][1].ch = cn
      /\ hist[c][2].op = "unsub" /\ hist[c][2].ch = cn
      /\ (Channels[cn].exists \/ kvChannels[cn].exists)
      /\ ID[c] \notin DOMAIN Store(cn)


\* the step is the one in which the subscribe or unsubscribe of connection c's reader is
\* applied to channel cn
Applies(c, cn) ==
    /\ pc[ConnLane(c)] \in {"handle", "sub_commit", "unsub_commit"}
    /\ pc'[ConnLane(c)] # pc[ConnLane(c)]
    /\ Len(hist'[c]) = Len(hist[c]) + 1
    /\ hist'[c][Len(hist'[c])].ch = cn

\* the user maps of the mode, by channel
Stores == [cn \in ChanNames |-> Store(cn)]

\* C12: a subscribe and an unsubscribe of a user change only that user's count on that
\* channel, and for a user that was not subscribed, one subscribe followed by one
\* unsubscribe leaves the user out of the channel's map, in both modes.
C12_SubscribeThenUnsubscribe ==
    [][\A c \in Conns, cn \in ChanNames :
         Applies(c, cn)
         => /\ \A uid \in UIDs \ {ID[c]} :
                 StoredCount(Stores'[cn], uid) = StoredCount(Stores[cn], uid)
            /\ \A other \in ChanNames \ {cn} : Stores'[other] = Stores[other]
            /\ ( /\ NoIDTwice
                 /\ Len(hist'[c]) = 2
                 /\ hist'[c][1].op = "sub" /\ hist'[c][1].ch = cn
                 /\ hist'[c][2].op = "unsub" )
               => ID[c] \notin DOMAIN Stores'[cn]]_vars


\* the step is one of connection c's reader while it handles a pusher:unsubscribe frame
\* naming channel cn
UnsubscribeStep(c, cn) ==
    LET l == ConnLane(c) IN
    /\ pc[l] \in {"handle", "unsub_get", "unsub_commit"}
    /\ lv[l].in.event = "pusher:unsubscribe"
    /\ lv[l].in.valid /\ ~Panics(lv[l].in)
    /\ lv[l].in.channel = cn
    /\ pc'[l] # pc[l] /\ pc'[l] # "dead"

\* C13: handling pusher:unsubscribe for a channel the user is not subscribed to changes
\* no channel's user map, writes no frame, and leaves the connection open and reading,
\* in both modes.
C13_UnsubscribeAbsentIsNoOp ==
    [][\A c \in Conns, cn \in ChanNames :
         (UnsubscribeStep(c, cn) /\ ID[c] \notin DOMAIN Stores[cn])
         => /\ Stores' = Stores
            /\ out' = out
            /\ sock'[c] = sock[c]
            /\ pc'[ConnLane(c)] \in {"read", "unsub_get", "unsub_commit"}]_vars


\* the channels that exist, in the store of the mode
StoresExist ==
    [cn \in ChanNames |-> IF mode = "standalone" THEN Channels[cn].exists
                          ELSE kvChannels[cn].exists]

\* connection c's reader is about to finish a Subscribe to cn that found no channel: the
\* lookup of getOrCreateChannel missed, or the key of the channel is not in the store
SubscribesToMissing(c, cn) ==
    LET l == ConnLane(c) IN
    /\ lv[l].ch = cn
    /\ \/ pc[l] = "sub_create"
       \/ pc[l] = "sub_commit" /\ ~kvChannels[cn].exists
    /\ pc'[l] \notin {pc[l], "sub_get", "dead"}

\* connection c's reader looks at a pusher:subscribe of its managed user for channel cn,
\* which does not exist, and moves on
TakesSubscribeToMissing(c, cn) ==
    LET l == ConnLane(c)
        f == lv[l].in
    IN
    /\ Handling(c, "pusher:subscribe")
    /\ f.valid /\ ~Panics(f) /\ f.channel = cn
    /\ ~Unauthorized(c, f)
    /\ GetUserByID(owner[c], ID[c]) # {}
    /\ ~StoresExist[cn]
    /\ pc'[l] \notin {"handle", "dead"}

Broadcasters == { RestLane(p) : p \in Procs } \cup { LoopLane(p) : p \in Procs }

\* the step is one of a publish that finds nobody subscribed to its channel: the request
\* is taken while the user map of the channel is empty, or GetOrCreateChannel looks the
\* channel up and finds an empty map, or it creates the channel after it found none
PublishesToNobody(l) ==
    \/ /\ l[1] = "rest" /\ pc[l] = "rest"
       /\ npub' = npub + 1
       /\ due'[Len(due')].at = l[2]
       /\ DOMAIN Stores[due'[Len(due')].ch] = {}
    \/ /\ pc[l] = "gocc_get"
       /\ DOMAIN Stores[lv[l].ev.Channel] = {}
       /\ pc'[l] \notin {pc[l], "dead"}
    \/ /\ pc[l] \in {"pub_create", "gocc_commit"}
       /\ pc'[l] \notin {pc[l], "dead"}

\* C15: a publish that finds nobody subscribed to its channel writes no frame to any
\* socket, starts no walk, and leaves every channel's user map and the users that are
\* registered, in the processes and in the store, as they were.
C15_PublishToNobody ==
    [][\A l \in Broadcasters :
         PublishesToNobody(l)
         => /\ Stores' = Stores
            /\ out' = out
            /\ lost' = lost
            /\ Users' = Users
            /\ kvUsers' = kvUsers
            /\ pc'[l] # "walk"]_vars


\* lane l comes back from the socketFinish it ran for connection c
FinishReturns(l, c) ==
    /\ pc[l] \in TdStates
    /\ lv[l].td = c
    /\ pc'[l] \notin TdStates \cup {"dead"}

\* the connections other than c whose user carries the ID of c's user: registered with
\* it, or given it by allocateUserID and about to be registered
OtherHolders(c) ==
    { d \in Conns \ {c} :
        \/ (\E p \in Procs : d \in Users[p]) /\ ID[d] = ID[c]
        \/ pc[ConnLane(d)] = "register" /\ lv[ConnLane(d)].uid = ID[c] }

\* how many times uid is in the ID list of the store
Listed(uid) == Cardinality({ i \in DOMAIN kvUsers.UIDs : kvUsers.UIDs[i] = uid })

\* C16: when the socketFinish that follows a read, decode or write error on a connection
\* returns, the connection is closed, its user is in the user set of no process and, in
\* distributed mode, the ID list of the store holds the user's ID only for the other
\* connections that carry it.
C16_ErrorTearsDown ==
    [][\A l \in Lanes, c \in Conns :
         FinishReturns(l, c)
         => /\ sock'[c] = "closed"
            /\ \A p \in Procs : c \notin Users'[p]
            /\ mode = "distributed" => Listed(ID[c])' <= Cardinality(OtherHolders(c))']_vars


\* the positions of a lane before updateAndCommit
CommitStates ==
    {"alloc_commit", "sub_commit", "unsub_commit", "td_del_commit", "td_uid_commit",
     "gocc_commit"}

\* the position of the watchAndGet an update starts again from
ReadStep(at) ==
    CASE at = "alloc_commit"  -> "adduser"
      [] at = "sub_commit"    -> "sub_get"
      [] at = "unsub_commit"  -> "unsub_get"
      [] at = "td_del_commit" -> "td_del_get"
      [] at = "td_uid_commit" -> "td_uid_get"
      [] at = "gocc_commit"   -> "gocc_get"

\* what lane l read is what the store holds under the key now
ReadIsLatest(l) ==
    CASE pc[l] \in {"alloc_commit", "td_uid_commit"} -> lv[l].rdU = kvUsers
      [] pc[l] \in {"sub_commit", "unsub_commit", "td_del_commit"} ->
           lv[l].rdCh.Users = kvChannels[lv[l].ch].Users
      [] pc[l] = "gocc_commit" -> ~kvChannels[lv[l].ev.Channel].exists

\* lane l runs updateAndCommit in this step
Commits(l) ==
    /\ mode = "distributed"
    /\ pc[l] \in CommitStates
    /\ pc'[l] \notin {pc[l], "dead"}

\* C17: in distributed mode, an update whose key another writer committed to since the
\* update read it starts again from its read and writes nothing; an update that is
\* committed is applied to the value the store holds at that moment.
C17_RetriedOnConflict ==
    [][\A l \in Lanes :
         Commits(l)
         => /\ lv[l].dirty
               => /\ pc'[l] = ReadStep(pc[l])
                  /\ kvChannels' = kvChannels
                  /\ kvUsers' = kvUsers
            /\ pc'[l] # ReadStep(pc[l]) => ReadIsLatest(l)]_vars


\* no AddUser, no establishConnection and no socketFinish is under way or still to
\* come for a socket that has failed
NoneInFlight ==
    /\ \A l \in Lanes :
         pc[l] \notin {"adduser", "alloc_commit", "register", "handshake"} \cup TdStates
    /\ \A c \in Conns :
         sock[c] \in {"broken", "closed"} => pc[ConnLane(c)] \in {"done", "dead"}

\* C18: in distributed mode, whenever no allocation, release, connect or teardown is in
\* flight, the ID list of the store has no ID twice and holds exactly the IDs of the
\* users registered in the processes.
C18_ListMatchesRegistered ==
    (mode = "distributed" /\ NoneInFlight)
    => /\ \A i \in DOMAIN kvUsers.UIDs, j \in DOMAIN kvUsers.UIDs :
            kvUsers.UIDs[i] = kvUsers.UIDs[j] => i = j
       /\ SeqRange(kvUsers.UIDs) = { ID[c] : c \in Registered }


\* C19: a DeleteUserID for an ID that is not in the stored list, the key missing
\* included, returns nil without a commit and leaves what is stored as it was.
C19_DeleteAbsentIsNoOp ==
    [][\A l \in Lanes :
         ( /\ pc[l] = "del_get" /\ pc'[l] # pc[l]
           /\ (~kvUsers.exists \/ lv[l].uid \notin SeqRange(kvUsers.UIDs)) )
         => /\ kvUsers' = kvUsers
            /\ pc'[l] = "del_returned"
            /\ lv'[l].ret = "nil"]_vars

\* a DeleteUserID has returned for an ID that the stored list, which holds other IDs,
\* did not hold, and the list is as it was read
C19_Witness ==
    \E l \in Lanes :
      /\ pc[l] = "del_returned"
      /\ lv[l].rdU.exists
      /\ lv[l].rdU.UIDs # << >>
      /\ lv[l].uid \notin SeqRange(lv[l].rdU.UIDs)
      /\ lv[l].ret = "nil"
      /\ kvUsers = lv[l].rdU


\* C20: in both modes a GetChannel for a channel that does not exist returns error 404
\* and no channel, and the channel does not exist afterwards either.
C20_StrictLookupIs404 ==
    [][\A l \in Lanes, cn \in ChanNames :
         ( /\ pc[l] = "rest" /\ pc'[l] = "get_returned"
           /\ lv'[l].ch = cn
           /\ ~StoresExist[cn] )
         => /\ lv'[l].ret = "404"
            /\ lv'[l].rdCh = NoChannel
            /\ ~StoresExist'[cn]
            /\ Channels' = Channels
            /\ kvChannels' = kvChannels]_vars

\* the IDs of the registered users that hold a subscription on channel cn by their own
\* operations
Subscribers(cn) ==
    { ID[c] : c \in { d \in Registered : Outstanding(hist[d], cn) > 0 } }

\* no reader is between a membership frame and its reply
MembersQuiet ==
    \A c \in Conns : pc[ConnLane(c)] \in {"idle", "adduser", "alloc_commit", "register",
                                          "handshake", "read", "done", "dead"}

\* lane l ends a status request that found no channel and created it
StatusCreated(l) ==
    pc[l] # "responded" /\ pc'[l] = "responded" /\ lv'[l].ret = "created"

\* lane l ends a channel listing
ListEnds(l) == pc[l] # "responded" /\ pc'[l] = "responded" /\ lv'[l].ret = "listed"

\* lane l reads channel cn for a channel listing
ListReads(l, cn) ==
    /\ pc[l] = "ls_read" /\ pc'[l] \in {"ls_read", "responded"}
    /\ cn \in DOMAIN lv'[l].resp.body.channels
    /\ cn \notin DOMAIN lv[l].resp.body.channels

\* C21: the status of a channel that was never referenced is answered 200 with the empty
\* object and creates the channel; a channel listing holds every channel that existed when
\* it began, and the user_count it reads for a channel, while no membership frame is being
\* handled, is the number of distinct users subscribed to it.
C21_StatusThenListing ==
    [][\A l \in Lanes :
         /\ StatusCreated(l) => /\ lv'[l].resp = [code |-> 200, body |-> << >>]
                                /\ lv'[l].ch \in Existing'
         /\ ListEnds(l) => /\ lv'[l].resp.code = 200
                           /\ lv'[l].chs \subseteq DOMAIN lv'[l].resp.body.channels
         /\ \A cn \in ChanNames :
              (ListReads(l, cn) /\ MembersQuiet)
                 => lv'[l].resp.body.channels[cn].user_count
                       = Cardinality(Subscribers(cn))]_vars

\* lane l ends a status request that found the channel
StatusFound(l) ==
    pc[l] # "responded" /\ pc'[l] = "responded" /\ lv'[l].ret \in {"found", "retried"}

\* C22: the status of a channel whose user map is not empty is answered 200 with
\* occupied = true and subscription_count = the sum of the counts of its users, and with
\* user_count = the number of its users exactly when the channel is a "presence-" channel;
\* user_count is left out otherwise.
C22_StatusOfOccupied ==
    [][\A l \in Lanes :
         (StatusFound(l) /\ DOMAIN Store(lv'[l].ch) # {})
            => LET cn   == lv'[l].ch
                   body == lv'[l].resp.body
               IN  /\ lv'[l].resp.code = 200
                   /\ {"occupied", "subscription_count"} \subseteq DOMAIN body
                   /\ body["occupied"] = TRUE
                   /\ body["subscription_count"] = Cardinality(Subscriptions(Store(cn)))
                   /\ "user_count" \in DOMAIN body <=> IsPresence(cn)
                   /\ IsPresence(cn)
                        => body["user_count"] = Cardinality(DOMAIN Store(cn))]_vars

\* lane l answers a request that names no application of the configuration
RefusedUnknown(l) == pc[l] # "responded" /\ pc'[l] = "responded" /\ lv'[l].ret = "refused"

\* C23: a request that names an application, or a key, that the configuration does not
\* hold is answered 404 and changes nothing: no channel, no user, no ID, no event.
C23_UnknownIs404 ==
    [][\A l \in Lanes :
         RefusedUnknown(l) => /\ lv'[l].resp.code = 404
                       /\ UNCHANGED <<Users, ID, SocketID, owner, Channels, kvChannels,
                                      kvUsers, msgs, sock, out, due, npub>>]_vars

\* the reader of connection c handles the frame it has read, of event e
Handles(c, e) ==
    /\ Handling(c, e)
    /\ pc'[ConnLane(c)] \in {"read", "td_start"}

\* C24: on an open connection a pusher:ping is answered with one pusher:pong, a frame of
\* an unknown event with one pusher:error "not implemented"; the handling changes no user
\* map, no user set and no ID list, and the connection stays open with its reader reading.
C24_PingAndUnknown ==
    [][\A c \in Conns :
         /\ (Handles(c, "pusher:ping") /\ sock[c] = "open")
               => out'[c] = Append(out[c], Frame("pusher:pong", "", "ok", 0))
         /\ (Handles(c, "client-event") /\ sock[c] = "open")
               => out'[c] = Append(out[c], Frame("pusher:error", "", "not implemented", 0))
         /\ ((Handles(c, "pusher:ping") \/ Handles(c, "client-event")) /\ sock[c] = "open")
               => /\ UNCHANGED <<Channels, kvChannels, Users, kvUsers, ID, sock, lost>>
                  /\ \A d \in Conns \ {c} : out'[d] = out[d]
                  /\ pc'[ConnLane(c)] = "read"]_vars

\* a connection that is open and reading has been sent a pong for its ping and an error
\* "not implemented" for its frame of an unknown event
C24_Witness ==
    \E c \in Conns :
      /\ sock[c] = "open" /\ pc[ConnLane(c)] = "read"
      /\ nframes[c] = 2 /\ Len(out[c]) = 3
      /\ \E i, j \in 1..Len(out[c]) :
           /\ out[c][i] = Frame("pusher:pong", "", "ok", 0)
           /\ out[c][j] = Frame("pusher:error", "", "not implemented", 0)

\* lane l begins a channel listing
ListBegins(l) ==
    pc[l] = "rest" /\ pc'[l] \in {"ls_read", "responded"} /\ lv'[l].ret = "listed"

\* the process that holds the channels of the standalone application runs
HolderRuns == mode = "standalone" => 1 \in Running

\* C25: a channel that exists goes on existing while the process that holds it runs, and a
\* channel listing answers with every channel that existed when it began, whether or not
\* the channel has a user left.
C25_NeverDeleted ==
    [][HolderRuns' =>
         /\ Existing \subseteq Existing'
         /\ \A l \in Lanes :
              /\ ListBegins(l) => lv'[l].chs = Existing
              /\ ListEnds(l) => lv'[l].chs \subseteq DOMAIN lv'[l].resp.body.channels]_vars

\* the only client has subscribed and then unsubscribed or gone away, and a listing
\* answers with its channel, with no user
C25_Witness ==
    \E l \in Lanes :
      /\ pc[l] = "responded" /\ lv[l].ret = "listed"
      /\ "presence-x" \in DOMAIN lv[l].resp.body.channels
      /\ lv[l].resp.body.channels["presence-x"].user_count = 0
      /\ \E c \in Conns :
           /\ \E i \in 1..Len(hist[c]) : hist[c][i].op = "sub"
           /\ Unsubscribed(c, "presence-x") \/ c \notin Registered

\* lane l has issued WATCH and GET for a key, another writer has committed to that key
\* since, and l runs the MULTI/SET/EXEC of the attempt in this step
ExecAfterForeignCommit(l) ==
    /\ mode = "distributed"
    /\ lv[l].key # "" /\ lv[l].dirty
    /\ lv'[l].key = "" /\ pc'[l] # "dead"

\* C26: the watch of an attempt is in force when its EXEC runs: an EXEC that follows a
\* commit of another writer to the watched key returns nil and leaves the store as it is.
C26_WatchInForceAtExec ==
    [][\A l \in Lanes :
         ExecAfterForeignCommit(l) => UNCHANGED <<kvChannels, kvUsers>>]_vars

\* the reader of connection c handles a pusher:subscribe whose Subscribe call returns an
\* error: the user of the connection is not managed by the process
SubscribeFails(c) ==
    /\ Handles(c, "pusher:subscribe")
    /\ lv[ConnLane(c)].in.valid /\ ~Panics(lv[ConnLane(c)].in)
    /\ ~Unauthorized(c, lv[ConnLane(c)].in)
    /\ GetUserByID(owner[c], ID[c]) = {}

SubscribePathFails(c) ==
    LET f == lv[ConnLane(c)].in IN
    /\ Handling(c, "pusher:subscribe")
    /\ \/ ~f.valid
       \/ /\ f.valid /\ f.channel # NonStringChannel /\ IsPrivate(f.channel)
          /\ Panics(f) \/ Unauthorized(c, f)
       \/ /\ f.valid /\ ~Panics(f) /\ ~Unauthorized(c, f)
          /\ GetUserByID(owner[c], ID[c]) = {}

\* C28: a pusher:subscribe that fails on an open connection is answered with exactly one
\* pusher:error frame; the socket stays open, no user is removed and the reader reads on.
C28_SubscribeFailureIsOneError ==
    [][\A c \in Conns :
         ( /\ SubscribePathFails(c)
           /\ sock[c] = "open"
           /\ pc'[ConnLane(c)] # "handle" )
         => /\ \E d \in {"unrecognized message", "unauthorized"} :
                 out'[c] = Append(out[c], Frame("pusher:error", "", d, 0))
            /\ sock'[c] = "open"
            /\ Users' = Users
            /\ pc'[ConnLane(c)] = "read"]_vars

\* connection c has itself subscribed to channel cn since it was established
HasSubscribed(c, cn) ==
    \E j \in 1..Len(hist[c]) : hist[c][j].op = "sub" /\ hist[c][j].ch = cn

\* C29: every event frame written to a connection is of a channel that this connection
\* itself has subscribed to since it was established.
C29_OnlyOwnChannels ==
    \A c \in Conns : \A i \in 1..Len(out[c]) :
       out[c][i].pub > 0 => HasSubscribed(c, out[c][i].channel)

\* lane l takes a step of a socketFinish for connection c, whose user an earlier
\* socketFinish has unregistered already
LaterFinish(l, c) ==
    /\ pc[l] \in TdStates
    /\ lv[l].td = c
    /\ c \notin Registered
    /\ pc'[l] # pc[l]
    /\ pc'[l] # "dead"

\* C30: a step of the later of two teardowns of one connection leaves every other
\* registered connection that carries the same user ID registered, and changes no
\* channel's user map and no ID list.
C30_LaterTeardownSparesOthers ==
    [][\A l \in Lanes, c \in Conns, d \in Conns :
         ( /\ LaterFinish(l, c)
           /\ d # c
           /\ d \in Registered
           /\ ID[d] = ID[c] )
         => /\ d \in Registered'
            /\ Channels' = Channels
            /\ kvChannels' = kvChannels
            /\ kvUsers' = kvUsers]_vars

\* the teardown of connection c has completed: the socket is closed, the user is
\* unregistered and no lane is inside a socketFinish for c
TornDown(c) ==
    /\ sock[c] = "closed"
    /\ c \notin Registered
    /\ \A l \in Lanes : ~(pc[l] \in TdStates /\ lv[l].td = c)

\* C31: once the teardown of a connection has completed, no Subscribe succeeds for its
\* user any more: no step records a subscription of that connection.
C31_NoSubscribeAfterTeardown ==
    [][\A c \in Conns :
         TornDown(c)
         => ~(/\ Len(hist'[c]) > Len(hist[c])
              /\ hist'[c][Len(hist'[c])].op = "sub")]_vars

\* lane l takes the updateAndCommit step of a DB.GetOrCreateChannel
GetOrCreateCommits(l) ==
    /\ pc[l] \in {"gocc_commit", "st_commit"}
    /\ pc'[l] # pc[l]

\* C32: the commit of a GetOrCreateChannel leaves every channel that exists in the store
\* as it is, so a subscription committed since the channel was read stays in its user map.
C32_GetOrCreateKeepsUsers ==
    [][\A l \in Lanes, cn \in ChanNames :
         (GetOrCreateCommits(l) /\ kvChannels[cn].exists)
         => kvChannels'[cn] = kvChannels[cn]]_vars

\* lane l leaves the realBroadcast of publish k: the range over ch.Users is over
WalkReturns(l, k) ==
    /\ lv[l].ev.pub = k
    /\ lv'[l].ev.pub # k
    /\ pc'[l] # "dead"

\* during the walk of lane l for publish k a write to a socket of its process failed
WriteFailedIn(l, k) ==
    \E c \in Conns : owner[c] = l[2] /\ Count(lost'[c], k) > 0

\* C33: when a walk in which a write failed is over, every user of the walking process
\* that is still registered on an open socket and had subscribed to the channel before
\* the publish, without unsubscribing, has the frame of the publish on its socket.
C33_WalkGoesOnAfterWriteError ==
    [][\A l \in Lanes, k \in 1..MaxPublish, d \in Conns :
         ( /\ WalkReturns(l, k)
           /\ WriteFailedIn(l, k)
           /\ d \in Users'[l[2]]
           /\ sock'[d] = "open"
           /\ SubscribedBefore(d, k) )
         => Count(out'[d], k) >= 1]_vars

\* the write of the handshake frame of connection c failed
HandshakeFailed(c) ==
    Len(lost[c]) > 0 /\ lost[c][1].event = "pusher:connection_established"

\* C34: the first frame written to a connection is pusher:connection_established with
\* the socket ID of the connection; and a connection whose handshake write failed never
\* reads a frame and, once its lane is done, is closed and unregistered.
C34_HandshakeFirst ==
    \A c \in Conns :
       /\ out[c] # << >>
            => out[c][1] = Frame("pusher:connection_established", "", SocketID[c], 0)
       /\ HandshakeFailed(c)
            => /\ pc[ConnLane(c)] \in TdStates \cup {"done", "dead"}
               /\ pc[ConnLane(c)] = "done" => (sock[c] = "closed" /\ c \notin Registered)

\* the frames of the script of connection c whose handling is over
Handled(c) ==
    IF nframes[c] = 0 THEN << >>
    ELSE SubSeq(lim.script, 1,
                IF pc[ConnLane(c)] = "read" THEN nframes[c] ELSE nframes[c] - 1)

\* the reply of the protocol to frame f of a registered user
ReplyTo(f) ==
    IF f.event = "pusher:ping" THEN << Frame("pusher:pong", "", "ok", 0) >>
    ELSE IF f.event \notin {"pusher:subscribe", "pusher:unsubscribe"}
    THEN << Frame("pusher:error", "", "not implemented", 0) >>
    ELSE IF ~f.valid THEN << Frame("pusher:error", "", "unrecognized message", 0) >>
    ELSE IF f.event = "pusher:unsubscribe" THEN << >>
    ELSE IF IsPrivate(f.channel) /\ f.auth = NoAuth
    THEN << Frame("pusher:error", "", "unauthorized", 0) >>
    ELSE << Frame("pusher_internal:subscription_succeeded", f.channel, "ok", 0) >>

\* the replies to the frames of sq, one after the other
RECURSIVE Replies(_)
Replies(sq) ==
    IF sq = << >> THEN << >>
    ELSE Replies(SubSeq(sq, 1, Len(sq) - 1)) \o ReplyTo(sq[Len(sq)])

\* the user map of channel cn after the frames of sq were applied for uid, in order
RECURSIVE MapAfter(_, _, _)
MapAfter(sq, cn, uid) ==
    IF sq = << >> THEN EmptyMap
    ELSE LET m == MapAfter(SubSeq(sq, 1, Len(sq) - 1), cn, uid)
             f == sq[Len(sq)]
         IN  IF ~f.valid \/ f.channel # cn \/ (IsPrivate(cn) /\ f.auth = NoAuth) THEN m
             ELSE IF f.event = "pusher:subscribe" THEN SubscribeUser(m, uid)
             ELSE IF f.event = "pusher:unsubscribe" THEN UnsubscribeUser(m, uid)
             ELSE m

\* C35: the frames written to a connection after the handshake are the replies to the
\* frames handled so far, in the order the peer sent them, and every channel's user map
\* is what these frames make of it in that order, before the next frame is read.
C35_FramesInOrder ==
    \A c \in Conns :
       /\ out[c] # << >> => Tail(out[c]) = Replies(Handled(c))
       /\ out[c] = << >> => Handled(c) = << >>
       /\ c \in Registered
            => \A cn \in ChanNames :
                 (IF mode = "standalone" THEN Channels[cn].Users ELSE kvChannels[cn].Users)
                   = MapAfter(Handled(c), cn, ID[c])

\* a script of three frames with three different replies was handled to its end, a
\* subscription included
C35_Witness ==
    \E c \in Conns :
       /\ pc[ConnLane(c)] = "read"
       /\ nframes[c] = MaxScript
       /\ Len(out[c]) = MaxScript + 1
       /\ Cardinality({ out[c][i] : i \in 1..Len(out[c]) }) = MaxScript + 1
       /\ \E cn \in ChanNames : MapAfter(Handled(c), cn, ID[c]) # EmptyMap

\* the loop of process p has handled everything it was sent
LoopIdle(p) == pc[LoopLane(p)] = "recv" /\ msgs[p] = << >>

\* publish k is an event that reached the loop of the process of connection c, the loop
\* has not failed since, and c holds in the store the subscriptions it made before k
HeardBy(c, k) ==
    /\ due[k].at # 0
    /\ owner[c] \in due[k].to
    /\ due[k].errs[owner[c]] = Len(lv[LoopLane(owner[c])].err)
    /\ c \in Registered
    /\ SubscribedBefore(c, k)
    /\ StoredCount(kvChannels[due[k].ch].Users, ID[c]) = Outstanding(hist[c], due[k].ch)

Published(k) == Request([Name |-> due[k].Name, Data |-> due[k].Data], due[k].ch, k)

\* the event callback of process p was asked about publish k, and what it said
Asked(p, k) == { i \in 1..Len(lv[LoopLane(p)].seen) : lv[LoopLane(p)].seen[i].er.pub = k }
SaidFalse(p, k) == \E i \in Asked(p, k) : ~lv[LoopLane(p)].seen[i].ok

\* publish k waits in the queue of the loop of process p
Queued(p, k) == \E i \in 1..Len(msgs[p]) : msgs[p][i].pub = k

TurnPub(l, i) == Len(due) - Len(lv[l].trig.list) + i

\* lane l has answered a publish request and every loop has handled what it got
Answered(l) == pc[l] = "responded" /\ lv[l].ret = "published" /\ Quiet

\* connection c subscribed to cn before publish k was taken and has not unsubscribed
SubscribedTo(c, cn, k) ==
    /\ \E i \in 1..Len(hist[c]) :
         hist[c][i].op = "sub" /\ hist[c][i].ch = cn /\ hist[c][i].pub < k
    /\ ~Unsubscribed(c, cn)

\* a user of the process of lane l that subscribed to an entry of the list before the
\* request has one frame of that entry, and no frame of an entry whose channel it never
\* named, once the request is answered
FramesOfRequest(l) ==
    Answered(l)
    => \A c \in Conns, i \in 1..Len(lv[l].trig.list) :
         LET k == TurnPub(l, i) IN
         (owner[c] = l[2] /\ c \in Registered /\ due[k].to # {})
         => /\ SubscribedTo(c, due[k].ch, TurnPub(l, 1)) => Count(out[c], k) = 1
            /\ (\A j \in 1..Len(hist[c]) : hist[c][j].ch # lv[l].trig.list[i])
                 => Attempts(c, k) = 0

\* C38: a publish request for a known application passes the channels of its list to
\* Broadcast one by one, in the order of the list; a Broadcast that fails is logged and
\* the next channel follows; the answer is 200 with the body null whatever failed; and
\* a user that subscribed to k entries of the list before the request has k frames of
\* the request, one for each of these entries, and none for any other entry.
C38_TriggerEachChannel ==
    [][\A p \in Procs :
         LET l == RestLane(p)
             t == lv[l].trig
         IN
         /\ (t.at >= 0 /\ lv'[l].trig.at # t.at /\ lv'[l].trig # NoTrigger)
              => /\ lv'[l].trig = [t EXCEPT !.at = @ + 1]
                 /\ due' = Append(due, due'[Len(due')])
                 /\ due'[Len(due')].ch = t.list[t.at + 1]
                 /\ due'[Len(due')].at = p
                 /\ pc'[l] \in {"rest", "walk", "pub_create"}
         /\ (t.at >= 0 /\ lv'[l].trig.at = t.at) => due' = due
         /\ (pc[l] # "responded" /\ pc'[l] = "responded")
              => /\ lv'[l].resp = [code |-> 200, body |-> "null"]
                 /\ t.at = Len(t.list)
                 /\ Len(due) >= Len(t.list)
                 /\ \A i \in 1..Len(t.list) : due[TurnPub(l, i)].ch = t.list[i]
         /\ FramesOfRequest(l)']_vars

\* lane l is at the call of fn (Subscribe, Unsubscribe or RemoveUser) for the user of
\* connection c, whose ID is not in the user set of its process, and takes the step
UnmanagedCall(l, fn, c) ==
    /\ owner[c] # 0
    /\ GetUserByID(owner[c], ID[c]) = {}
    /\ pc'[l] \notin {pc[l], "dead"}
    /\ \/ /\ fn = "RemoveUser"
          /\ pc[l] = "td_start" /\ lv[l].td = c
       \/ /\ fn = "Subscribe"
          /\ l = ConnLane(c) /\ Handling(c, "pusher:subscribe")
          /\ lv[l].in.valid /\ ~Panics(lv[l].in) /\ ~Unauthorized(c, lv[l].in)
       \/ /\ fn = "Unsubscribe"
          /\ l = ConnLane(c) /\ Handling(c, "pusher:unsubscribe")
          /\ lv[l].in.valid /\ ~Panics(lv[l].in)

\* C39: Subscribe, Unsubscribe and RemoveUser called with an ID that no user of the
\* calling process carries return an error of code 500 at once and change nothing: the
\* user maps of the channels, local and stored, the set of channels, the local user set
\* and the stored ID set are what they were.
C39_UnmanagedChangesNothing ==
    [][\A l \in Lanes, c \in Conns, fn \in {"Subscribe", "Unsubscribe", "RemoveUser"} :
         UnmanagedCall(l, fn, c)
         => /\ ManagedUser(fn, owner[c], ID[c]).Code = 500
            /\ Channels' = Channels
            /\ kvChannels' = kvChannels
            /\ Users' = Users
            /\ kvUsers' = kvUsers
            /\ hist' = hist
            /\ pc'[l] = IF fn = "RemoveUser" THEN lv[l].ret
                        ELSE IF fn = "Unsubscribe" THEN "read"
                        ELSE PcAfterSend(c, "read")
            /\ fn = "Subscribe" => Attempts(c, 0)' = Attempts(c, 0) + 1]_vars

\* the reader of a connection whose user another lane had removed called Subscribe, got
\* the error and wrote pusher:error to the closed socket, and its own socketFinish found
\* the user unmanaged too; the ID is in no channel
C39_Witness ==
    \E c \in Conns :
       /\ owner[c] # 0
       /\ GetUserByID(owner[c], ID[c]) = {}
       /\ \E i \in 1..Len(lost[c]) : lost[c][i].event = "pusher:error"
       /\ Len(hist[c]) = 1
       /\ pc[ConnLane(c)] \notin {"handle", "td_start", "dead"}
       /\ \A cn \in ChanNames : /\ ID[c] \notin DOMAIN Channels[cn].Users
                                /\ ID[c] \notin DOMAIN kvChannels[cn].Users

\* C40: given the same AddUser, Subscribe, Unsubscribe, RemoveUser and GetOrCreateChannel
\* calls one after another, without failures of the store, a supervisor without a store
\* and one with a store return the same IDs from AddUser and have, after every call,
\* the same channels with the same user maps.
C40_SameContract ==
    /\ \A c \in Conns : pc[ConnLane(c)] # "idle" => ID[c] = lv[ConnLane(c)].uid
    /\ Users[1] = Users[2]
    /\ \A cn \in ChanNames : Channels[cn] = kvChannels[cn]

\* the ID of a removed user was given out again while a channel still counts a
\* subscription of the removed user, another channel exists with no user, and the new
\* user has subscribed to the first channel
C40_Witness ==
    \E c \in Conns, d \in Conns :
       /\ pc[ConnLane(c)] = "done" /\ d \in Users[2]
       /\ ID[c] = 0 /\ lv[ConnLane(d)].uid = 0
       /\ kvChannels["my-channel"].exists /\ kvChannels["my-channel"].Users = (0 :> 2)
       /\ kvChannels["private-x"] = NewChannel
       /\ Cardinality(Users[2]) = 2

=============================================================================
